---- MODULE Spec2Model ----
(***************************************************************************)
(* Competitor discovery and threat scoring of BEAM for Individuals.        *)
(*                                                                         *)
(*   server/services/competitorDiscoveryService.js                         *)
(*       extractBusinessContext, researchAgent, supervisorAgent,           *)
(*       calculateCompetitorThreat, discoverCompetitors                    *)
(*   server/services/threatScoringService.js   calculateThreatScore        *)
(*   server/services/automationService.js      the scheduled tasks,        *)
(*                                             performWeeklyRefresh,       *)
(*                                             generateMonthlyReports      *)
(*   server/services/emailService.js           sendMonthlyReport           *)
(*   unnamed/part_003 (payment controller)     createSubscription,         *)
(*                                             confirmPayment              *)
(*   server/migrations/run-migrations.js       the tables and their keys   *)
(*                                                                         *)
(* Spec           the discovery orchestrator: invocations of               *)
(*                discoverCompetitors interleaved at their awaits, over    *)
(*                the competitor_discovery_jobs and competitors tables.    *)
(* SpecAggregate  the candidate merge of discoverCompetitors on arbitrary  *)
(*                agent result lists.                                      *)
(* SpecSupervisor the filter / sort / slice of supervisorAgent on          *)
(*                arbitrary judgment lists.                                *)
(* SpecThreat     calculateThreatScore over a competitors table and a      *)
(*                keyword count.                                           *)
(* SpecScorer     calculateCompetitorThreat and the values of the upsert   *)
(*                on arbitrary replies of the reasoning service.           *)
(* SpecRefresh    performWeeklyRefresh batches, started by the cron tick   *)
(*                or by a direct call, each calling discoverCompetitors    *)
(*                and calculateThreatScore for the websites it selected.   *)
(* SpecScheduler  initializeScheduledTasks, stopAllTasks and the cron      *)
(*                tasks they create and stop.                              *)
(* SpecSubscription  createSubscription and confirmPayment requests,       *)
(*                interleaved at their awaits, over the subscriptions      *)
(*                table.                                                   *)
(* SpecReports    generateMonthlyReports over the websites, competitors    *)
(*                and threat_assessments tables, writing beam_reports and  *)
(*                handing the report to sendMonthlyReport.                 *)
(*                                                                         *)
(* The relational store is characterised by the outcome of each statement  *)
(* (it is applied, or it raises) and by the unique keys of the tables;     *)
(* referential constraints and column lists are not modelled.              *)
(***************************************************************************)
EXTENDS Integers, Sequences, FiniteSets, TLC

VARIABLES
    jobs,          \* competitor_discovery_jobs: sequence of rows, id = position
    competitors,   \* competitors: sequence of rows, id = position
    run,           \* per invocation of discoverCompetitors: its locals and position
    started,       \* number of discoverCompetitors invocations so far
    aggIn,         \* SpecAggregate: <<agent1Results, agent2Results, agent3Results>>
    aggOut,        \* SpecAggregate: uniqueCandidates
    supIn,         \* SpecSupervisor: result.validated_competitors
    supOut,        \* SpecSupervisor: the list supervisorAgent returned
    supKind,       \* SpecSupervisor: what the reasoning call answered
    supRaised,     \* SpecSupervisor: supervisorAgent rejected
    siteCompetitors, \* SpecThreat: the competitors rows of one website
    keywordCount,  \* SpecThreat: COUNT(*) of the website's keywords
    assessment,    \* SpecThreat: value returned by calculateThreatScore
    scorerReply,   \* SpecScorer: what the reasoning call answered
    scoredRow,     \* SpecScorer: the competitors row written for the competitor
    websiteRows,   \* websites: the state of each row (active, inactive, deleted)
    batch,         \* per invocation of performWeeklyRefresh: its locals and position
    assessments,   \* threat_assessments: sequence of rows, id = position
    cronJobs,      \* the tasks cron.schedule created: sequence, id = position
    scheduledJobs, \* automationService.scheduledJobs: key -> task id, 0: no entry
    tasksStopped,  \* stopAllTasks returned and no task was scheduled since
    subscriptions, \* subscriptions: sequence of rows, id = position
    customers,     \* users.stripe_customer_id is set, per user
    request,       \* per payment request: its locals and position
    issued,        \* number of subscriptions the payment provider created
    reportRun,     \* the invocation of generateMonthlyReports: locals and position
    beamReports,   \* beam_reports: sequence of rows, id = position
    sentEmails     \* monthly report emails handed to the mail transport

vars == <<jobs, competitors, run, started, aggIn, aggOut, supIn, supOut,
          supKind, supRaised, siteCompetitors, keywordCount, assessment,
          scorerReply, scoredRow, websiteRows, batch, assessments,
          cronJobs, scheduledJobs, tasksStopped,
          subscriptions, customers, request, issued,
          reportRun, beamReports, sentEmails>>

discoveryVars == <<jobs, competitors, run, started>>
aggregateVars == <<aggIn, aggOut>>
supervisorVars == <<supIn, supOut, supKind, supRaised>>
threatVars == <<siteCompetitors, keywordCount, assessment>>
scorerVars == <<scorerReply, scoredRow>>
refreshVars == <<websiteRows, batch, assessments>>
schedulerVars == <<cronJobs, scheduledJobs, tasksStopped>>
subscriptionVars == <<subscriptions, customers, request, issued>>
reportVars == <<reportRun, beamReports, sentEmails>>
serviceVars == <<schedulerVars, subscriptionVars, reportVars>>
otherVars == <<aggregateVars, supervisorVars, threatVars, scorerVars, refreshVars,
               serviceVars>>

-----------------------------------------------------------------------------
(* Bounds *)

MaxInvocations == 2      \* discoverCompetitors invocations in one behaviour
MaxAgentResults == 2     \* SpecAggregate: candidates per agent result list
MaxJudgments == 6        \* SpecSupervisor: entries of validated_competitors
MaxCompetitors == 21     \* SpecThreat: live competitor rows of the website
MaxVaried == 2           \* SpecThreat: live rows whose score is not the filler
MaxDeleted == 1          \* SpecThreat: soft-deleted competitor rows
MaxKeywords == 21        \* SpecThreat: keyword rows of the website
MaxInitializations == 2  \* SpecScheduler: calls of initializeScheduledTasks
MaxTicks == 1            \* SpecScheduler: callback invocations recorded per task
MaxSubscriptions == 2    \* SpecSubscription: subscriptions the provider creates
MaxReportCompetitors == 6 \* SpecReports: live competitor rows of a website
MaxReportRuns == 2       \* SpecReports: invocations of generateMonthlyReports

-----------------------------------------------------------------------------
(* Values *)

NULL == "NULL"           \* SQL NULL / JS undefined in a text position
None == <<>>             \* SQL NULL / JS undefined in a numeric position
Some(x) == <<x>>
IsNone(o) == o = <<>>
Val(o) == o[1]

\* Array.prototype.slice(0, n)
Slice(s, n) == SubSeq(s, 1, IF Len(s) < n THEN Len(s) ELSE n)

Range(s) == {s[i] : i \in 1..Len(s)}

\* The outcome of an awaited call: it resolves with a value or rejects with
\* an error message.
Return(v) == [raised |-> FALSE, value |-> v, message |-> NULL]
Raise(m) == [raised |-> TRUE, value |-> <<>>, message |-> m]

\* try { body } catch (error) { return fallback }
TryCatch(body, fallback) == IF body.raised THEN Return(fallback) ELSE body

-----------------------------------------------------------------------------
(* researchAgent *)

\* A Tavily result r with r.title && r.url truthy; "" stands for a missing or
\* empty string.
Truthy(str) == str # ""

Candidate(r) ==
    [name |-> r.title, url |-> r.url, description |-> r.content,
     source |-> "tavily_search"]

\* response: [kind |-> "error"] when axios.post rejects, else
\* [kind |-> "ok", results |-> response.data.results || []].
researchAgentTry(response) ==
    IF response.kind = "error"
    THEN Raise("search request failed")
    ELSE LET kept == SelectSeq(response.results,
                               LAMBDA r : Truthy(r.title) /\ Truthy(r.url))
             mapped == [i \in 1..Len(kept) |-> Candidate(kept[i])]
         IN  Return(Slice(mapped, 5))

\* Variant for C2: the agent without its try/catch, so a rejected search
\* request propagates to the orchestrator.
researchAgentNoCatch(response) == researchAgentTry(response)

researchAgent(response) == TryCatch(researchAgentTry(response), <<>>)

-----------------------------------------------------------------------------
(* Candidate aggregation: Array.from(new Map(all.map(c => [c.url, c])).values()) *)

\* Map.prototype.set: an existing key keeps its position and takes the new
\* value, a new key is appended.
\* Variant for C6: the first candidate of a URL is kept.
MapSetKeepFirst(m, c) ==
    IF \E i \in 1..Len(m) : m[i].url = c.url THEN m ELSE Append(m, c)

MapSet(m, c) ==
    IF \E i \in 1..Len(m) : m[i].url = c.url
    THEN [i \in 1..Len(m) |-> IF m[i].url = c.url THEN c ELSE m[i]]
    ELSE Append(m, c)

RECURSIVE MapFrom(_, _)
MapFrom(m, entries) ==
    IF entries = <<>> THEN m
    ELSE MapFrom(MapSet(m, Head(entries)), Tail(entries))

UniqueCandidates(agent1Results, agent2Results, agent3Results) ==
    LET allCandidates == agent1Results \o agent2Results \o agent3Results
    IN  MapFrom(<<>>, allCandidates)

-----------------------------------------------------------------------------
(* supervisorAgent *)

ConfidenceThreshold == 80
TopN == 5

\* Array.prototype.sort((a, b) => b.confidence - a.confidence): stable,
\* descending by confidence.
RECURSIVE InsertByConfidence(_, _)
InsertByConfidence(sorted, c) ==
    IF sorted = <<>> THEN <<c>>
    ELSE IF Head(sorted).confidence >= c.confidence
         THEN <<Head(sorted)>> \o InsertByConfidence(Tail(sorted), c)
         ELSE <<c>> \o sorted

RECURSIVE SortByConfidenceDesc(_)
SortByConfidenceDesc(s) ==
    IF s = <<>> THEN <<>>
    ELSE InsertByConfidence(SortByConfidenceDesc(SubSeq(s, 1, Len(s) - 1)),
                            s[Len(s)])

\* Variant for C7: a strict comparison with the threshold.
PassesFilterStrict(c) == c.is_competitor /\ c.confidence > ConfidenceThreshold

PassesFilter(c) == c.is_competitor /\ c.confidence >= ConfidenceThreshold

\* Variant for C8: the filtered list is sliced without being sorted.
ValidateListUnsorted(entries) == Slice(SelectSeq(entries, PassesFilter), TopN)

\* result.validated_competitors.filter(...).sort(...).slice(0, 5)
ValidateList(entries) ==
    Slice(SortByConfidenceDesc(SelectSeq(entries, PassesFilter)), TopN)

\* reply.kind: "error"   the request rejects (or the envelope has no choices)
\*             "prose"   the content has no {...} match
\*             "badjson" JSON.parse throws
\*             "nolist"  the object has no validated_competitors array
\*             "list"    validated_competitors = reply.entries
supervisorAgentTry(reply) ==
    CASE reply.kind = "error"   -> Raise("reasoning request failed")
      [] reply.kind = "prose"   -> Return(<<>>)
      [] reply.kind = "badjson" -> Raise("Unexpected token in JSON")
      [] reply.kind = "nolist"  -> Raise("Cannot read properties of undefined")
      [] reply.kind = "list"    -> Return(ValidateList(reply.entries))

\* Variant for C15: the supervisor without its try/catch.
supervisorAgentNoCatch(reply) == supervisorAgentTry(reply)

supervisorAgent(reply) == TryCatch(supervisorAgentTry(reply), <<>>)

-----------------------------------------------------------------------------
(* calculateCompetitorThreat *)

DefaultThreatScore == 50

\* sub_scores: <<company_size_score, growth_rate_score, feature_parity_score,
\* market_presence_score>> of the object, <<>> when it carries none.
DefaultThreat ==
    [total_threat_score |-> Some(DefaultThreatScore), threat_level |-> "MEDIUM",
     sub_scores |-> <<>>]

\* reply.kind: "error" | "prose" | "badjson" as above, "object" when the
\* content parses; reply.object holds the fields the orchestrator reads
\* (an absent total_threat_score is None, an absent threat_level is NULL).
calculateCompetitorThreatTry(reply) ==
    CASE reply.kind = "error"   -> Raise("reasoning request failed")
      [] reply.kind = "prose"   -> Return(DefaultThreat)
      [] reply.kind = "badjson" -> Raise("Unexpected token in JSON")
      [] reply.kind = "object"  -> Return(reply.object)

\* Variant for C16: the scorer without its try/catch.
calculateCompetitorThreatNoCatch(reply) == calculateCompetitorThreatTry(reply)

calculateCompetitorThreat(reply) ==
    TryCatch(calculateCompetitorThreatTry(reply), DefaultThreat)

\* { ...competitor, ...threatData }
WithScores(competitor, threatData) ==
    [name |-> competitor.name, url |-> competitor.url,
     is_competitor |-> competitor.is_competitor,
     confidence |-> competitor.confidence,
     total_threat_score |-> threatData.total_threat_score,
     threat_level |-> threatData.threat_level,
     sub_scores |-> threatData.sub_scores]

\* JS x || d on a number: undefined and 0 are falsy.
OrDefault(o, d) == IF IsNone(o) \/ Val(o) = 0 THEN d ELSE Val(o)

-----------------------------------------------------------------------------
(* The store *)

Websites == {"w1", "w2"}           \* ids of the rows of the websites table
WebsiteIds == {"w1", "w0"}         \* ids a direct caller passes; "w0" has no row

\* Unique keys of the competitors table (CREATE TABLE competitors): the
\* primary key only; website_id, threat_level and discovered_at carry plain
\* indexes.
CompetitorUniqueKeys == {{"id"}}

CompetitorRow(id, websiteId, competitor) ==
    [id |-> id, website_id |-> websiteId,
     competitor_name |-> competitor.name,
     competitor_url |-> competitor.url,
     threat_level |-> competitor.threat_level,
     threat_score |-> OrDefault(competitor.total_threat_score, 50),
     discovery_method |-> "v4_multi_agent",
     confidence |-> OrDefault(Some(competitor.confidence), 80),
     deleted_at |-> NULL]

DuplicateKey(table, row) ==
    {i \in 1..Len(table) :
        \E key \in CompetitorUniqueKeys : \A col \in key : table[i][col] = row[col]}

\* INSERT INTO competitors (id, ...) VALUES (UUID(), ...)
\* ON DUPLICATE KEY UPDATE threat_level, threat_score, confidence.
\* UUID() is a fresh id: the next position of the table.
UpsertCompetitor(table, websiteId, competitor) ==
    LET row == CompetitorRow(Len(table) + 1, websiteId, competitor)
        dup == DuplicateKey(table, row)
    IN  IF dup = {}
        THEN Append(table, row)
        ELSE [i \in 1..Len(table) |->
                IF i \in dup
                THEN [table[i] EXCEPT !.threat_level = row.threat_level,
                                      !.threat_score = row.threat_score,
                                      !.confidence = row.confidence]
                ELSE table[i]]

\* INSERT INTO competitor_discovery_jobs (id, website_id, status,
\* discovery_method, started_at) VALUES (?, ?, 'in_progress', 'v4_multi_agent', NOW())
InsertJob(table, websiteId) ==
    Append(table, [id |-> Len(table) + 1, website_id |-> websiteId,
                   status |-> "in_progress",
                   discovery_method |-> "v4_multi_agent",
                   competitors_found |-> None,
                   error_message |-> NULL])

\* Variant for C24: the completing update sets the status alone.
CompleteJobNoCount(table, jobId, found) ==
    [i \in 1..Len(table) |->
        IF table[i].id = jobId THEN [table[i] EXCEPT !.status = "completed"]
        ELSE table[i]]

\* UPDATE competitor_discovery_jobs SET status = 'completed',
\* competitors_found = ? WHERE id = ?
CompleteJob(table, jobId, found) ==
    [i \in 1..Len(table) |->
        IF table[i].id = jobId
        THEN [table[i] EXCEPT !.status = "completed",
                              !.competitors_found = Some(found)]
        ELSE table[i]]

\* UPDATE competitor_discovery_jobs SET status = 'failed', error_message = ?
\* WHERE website_id = ?
FailJobs(table, websiteId, message) ==
    [i \in 1..Len(table) |->
        IF table[i].website_id = websiteId
        THEN [table[i] EXCEPT !.status = "failed", !.error_message = message]
        ELSE table[i]]

-----------------------------------------------------------------------------
(* What the collaborators may answer *)

SearchResult(title, url) == [title |-> title, url |-> url, content |-> "text"]

SearchResponses ==
    { [kind |-> "error", results |-> <<>>],
      [kind |-> "ok", results |-> <<SearchResult("", "u3"),
                                    SearchResult("B", "u1"),
                                    SearchResult("C", "u2")>>] }

Judgment(name, url, isCompetitor, confidence) ==
    [name |-> name, url |-> url, is_competitor |-> isCompetitor,
     confidence |-> confidence]

SupervisorReplies ==
    { [kind |-> k, entries |-> <<>>] : k \in {"error", "prose", "badjson", "nolist"} }
    \cup
    { [kind |-> "list", entries |-> <<Judgment("A", "u1", TRUE, 85),
                                      Judgment("C", "u2", TRUE, 95),
                                      Judgment("B", "u1", TRUE, 79),
                                      Judgment("D", "u3", FALSE, 99)>>] }

ThreatObjects ==
    { [total_threat_score |-> Some(90), threat_level |-> "CRITICAL",
       sub_scores |-> <<25, 25, 20, 20>>] }

ScorerReplies ==
    { [kind |-> k, object |-> DefaultThreat] : k \in {"error", "prose", "badjson"} }
    \cup
    { [kind |-> "object", object |-> o] : o \in ThreatObjects }

-----------------------------------------------------------------------------
(* discoverCompetitors *)

Runs == {"r1", "r2"}     \* slots for the invocations in flight together

Idle ==
    [pc |-> "idle", websiteId |-> NULL, jobId |-> 0,
     agent1Results |-> <<>>, agent2Results |-> <<>>,
     uniqueCandidates |-> <<>>, validatedCompetitors |-> <<>>,
     competitorsWithScores |-> <<>>, stored |-> 0,
     error |-> NULL,
     \* bookkeeping for the properties, read by no action:
     failedAt |-> "none",       \* the step whose exception reached the catch block
     recorded |-> FALSE,        \* the catch block's update was applied
     agentsReturned |-> 0,      \* researchAgent calls that have returned
     validatedCount |-> 0,      \* length of the list supervisorAgent returned
     defaulted |-> {},          \* positions whose scorer reply was no object
     noSearchAnswer |-> TRUE]   \* every research request so far was rejected

Ended(r) == run[r].pc \in {"returned", "thrown"}
InFlight(r) == run[r].pc \notin {"idle", "returned", "thrown"}

\* The research agents whose search request has been issued while the
\* invocation awaits an agent: each researchAgent call is awaited before the
\* next one is made.
SearchesIssued(pc) ==
    CASE pc = "agent1" -> {1}
      [] pc = "agent2" -> {1, 2}
      [] pc = "agent3" -> {1, 2, 3}
      [] OTHER -> {}

\* A new invocation takes slot r1 when no invocation is in flight there, and
\* r2 otherwise (the slots are interchangeable).
FreeSlot(r) ==
    /\ ~InFlight(r)
    /\ r = "r2" => InFlight("r1")

\* The exception path: control moves to the catch block with error.message.
\* The locals of the try block are out of scope there; websiteId remains,
\* and stored keeps the number of upserts the invocation has performed.
Throw(r, step, message) ==
    run' = [run EXCEPT ![r] = [Idle EXCEPT !.pc = "catch",
                                           !.websiteId = run[r].websiteId,
                                           !.jobId = run[r].jobId,
                                           !.stored = run[r].stored,
                                           !.error = message,
                                           !.failedAt = step]]

\* Entry: the job row is inserted before anything else.
Invoke(r, websiteId, ok) ==
    /\ started' = started + 1
    /\ IF ok
       THEN /\ jobs' = InsertJob(jobs, websiteId)
            /\ run' = [run EXCEPT ![r] = [Idle EXCEPT !.pc = "context",
                                                      !.websiteId = websiteId,
                                                      !.jobId = Len(jobs) + 1]]
       ELSE /\ jobs' = jobs
            /\ run' = [run EXCEPT ![r] = [Idle EXCEPT !.pc = "catch",
                                                      !.websiteId = websiteId,
                                                      !.error = "store error",
                                                      !.failedAt = "insert"]]
    /\ UNCHANGED competitors

\* A direct call of discoverCompetitors.
StartDiscovery(r, websiteId, ok) ==
    /\ FreeSlot(r)
    /\ started < MaxInvocations
    /\ Invoke(r, websiteId, ok)
    /\ UNCHANGED otherVars

\* Step 1: extractBusinessContext.
ExtractContext(r, ok) ==
    /\ run[r].pc = "context"
    /\ IF ~ok
       THEN Throw(r, "context", "store error")
       ELSE IF run[r].websiteId \notin Websites
            THEN Throw(r, "not_found", "Website not found")
            ELSE run' = [run EXCEPT ![r].pc = "agent1"]
    /\ UNCHANGED <<jobs, competitors, started>>
    /\ UNCHANGED otherVars

\* An awaited call of the try block has settled: a rejection moves to the
\* catch block, a value lets the invocation go on.
Settle(r, step, outcome, continuation) ==
    IF outcome.raised THEN Throw(r, step, outcome.message) ELSE run' = continuation

\* Step 3: the three research agents, each awaited before the next is called.
Agent1(r, response) ==
    /\ run[r].pc = "agent1"
    /\ LET outcome == researchAgent(response)
       IN  Settle(r, "agent", outcome,
                  [run EXCEPT ![r].pc = "agent2",
                              ![r].agentsReturned = @ + 1,
                              ![r].agent1Results = outcome.value,
                              ![r].noSearchAnswer = @ /\ response.kind = "error"])
    /\ UNCHANGED <<jobs, competitors, started>>
    /\ UNCHANGED otherVars

Agent2(r, response) ==
    /\ run[r].pc = "agent2"
    /\ LET outcome == researchAgent(response)
       IN  Settle(r, "agent", outcome,
                  [run EXCEPT ![r].pc = "agent3",
                              ![r].agentsReturned = @ + 1,
                              ![r].agent2Results = outcome.value,
                              ![r].noSearchAnswer = @ /\ response.kind = "error"])
    /\ UNCHANGED <<jobs, competitors, started>>
    /\ UNCHANGED otherVars

\* The third agent returns; the results are combined and deduplicated and
\* the supervisor is called.  agent1Results and agent2Results are dead from
\* here on and are cleared.
Agent3(r, response) ==
    /\ run[r].pc = "agent3"
    /\ LET outcome == researchAgent(response)
       IN  Settle(r, "agent", outcome,
                  [run EXCEPT ![r].pc = "supervise",
                              ![r].agentsReturned = @ + 1,
                              ![r].agent1Results = <<>>,
                              ![r].agent2Results = <<>>,
                              ![r].uniqueCandidates =
                                  UniqueCandidates(run[r].agent1Results,
                                                   run[r].agent2Results,
                                                   outcome.value),
                              ![r].noSearchAnswer = @ /\ response.kind = "error"])
    /\ UNCHANGED <<jobs, competitors, started>>
    /\ UNCHANGED otherVars

\* Step 4: supervisorAgent returns.
Supervise(r, reply) ==
    /\ run[r].pc = "supervise"
    /\ LET outcome == supervisorAgent(reply)
       IN  Settle(r, "supervisor", outcome,
                  [run EXCEPT ![r].validatedCompetitors = outcome.value,
                              ![r].validatedCount = Len(outcome.value),
                              ![r].pc = IF outcome.value = <<>> THEN "complete"
                                        ELSE "score"])
    /\ UNCHANGED <<jobs, competitors, started>>
    /\ UNCHANGED otherVars

\* Step 5: one calculateCompetitorThreat call returns.  After the last one
\* validatedCompetitors is dead and is cleared.
Score(r, reply) ==
    /\ run[r].pc = "score"
    /\ LET competitor == run[r].validatedCompetitors[Len(run[r].competitorsWithScores) + 1]
           outcome == calculateCompetitorThreat(reply)
           scored == Append(run[r].competitorsWithScores,
                            WithScores(competitor, outcome.value))
           last == Len(scored) = Len(run[r].validatedCompetitors)
       IN  Settle(r, "scorer", outcome,
                  [run EXCEPT ![r].competitorsWithScores = scored,
                              ![r].defaulted = IF reply.kind = "object" THEN @
                                               ELSE @ \cup {Len(scored)},
                              ![r].validatedCompetitors = IF last THEN <<>> ELSE @,
                              ![r].pc = IF last THEN "store" ELSE "score"])
    /\ UNCHANGED <<jobs, competitors, started>>
    /\ UNCHANGED otherVars

\* Step 6: one competitor upsert.
Store(r, ok) ==
    /\ run[r].pc = "store"
    /\ IF ok
       THEN /\ competitors' = UpsertCompetitor(competitors, run[r].websiteId,
                                  run[r].competitorsWithScores[run[r].stored + 1])
            /\ run' = [run EXCEPT ![r].stored = @ + 1,
                                  ![r].pc = IF run[r].stored + 1 = Len(run[r].competitorsWithScores)
                                            THEN "complete" ELSE "store"]
       ELSE /\ competitors' = competitors
            /\ Throw(r, "upsert", "store error")
    /\ UNCHANGED <<jobs, started>>
    /\ UNCHANGED otherVars

\* The job is marked completed and the scored competitors are returned to
\* the caller; what is kept of the invocation is its job and its upsert count.
Complete(r, ok) ==
    /\ run[r].pc = "complete"
    /\ IF ok
       THEN /\ jobs' = CompleteJob(jobs, run[r].jobId, Len(run[r].competitorsWithScores))
            /\ run' = [run EXCEPT ![r] = [Idle EXCEPT !.pc = "returned",
                                                      !.websiteId = run[r].websiteId,
                                                      !.jobId = run[r].jobId,
                                                      !.stored = run[r].stored,
                                                      !.validatedCount = run[r].validatedCount,
                                                      !.defaulted = run[r].defaulted,
                                                      !.noSearchAnswer = run[r].noSearchAnswer]]
       ELSE /\ jobs' = jobs
            /\ Throw(r, "complete", "store error")
    /\ UNCHANGED <<competitors, started>>
    /\ UNCHANGED otherVars

\* The catch block: the failure is written to the jobs table and the error is
\* rethrown; when that update raises, its error is the one thrown.
Catch(r, ok) ==
    /\ run[r].pc = "catch"
    /\ IF ok
       THEN /\ jobs' = FailJobs(jobs, run[r].websiteId, run[r].error)
            /\ run' = [run EXCEPT ![r].pc = "thrown", ![r].recorded = TRUE]
       ELSE /\ jobs' = jobs
            /\ run' = [run EXCEPT ![r].pc = "thrown", ![r].error = "store error"]
    /\ UNCHANGED <<competitors, started>>
    /\ UNCHANGED otherVars

DiscoveryInit ==
    /\ jobs = <<>>
    /\ competitors = <<>>
    /\ run = [r \in Runs |-> Idle]
    /\ started = 0

\* The variables of the other specifications, at rest.
AggregateIdle == aggIn = <<<<>>, <<>>, <<>>>> /\ aggOut = None
SupervisorIdle ==
    supIn = <<>> /\ supOut = None /\ supKind = "list" /\ supRaised = FALSE
ThreatIdle == siteCompetitors = <<>> /\ keywordCount = 0 /\ assessment = None
DiscoveryIdle == DiscoveryInit

\* performWeeklyRefresh: the locals of one invocation.
IdleBatch ==
    [pc |-> "idle", websites |-> <<>>, position |-> 0,
     successCount |-> 0, errorCount |-> 0,
     slot |-> NULL,             \* the discoverCompetitors invocation awaited
     threatData |-> None,
     \* bookkeeping for the properties, read by no action:
     visited |-> <<>>,          \* websites whose loop body was entered
     threw |-> 0,               \* loop bodies that ended in the catch clause
     discoveryThrew |-> {},     \* websites whose discoverCompetitors threw
     inserted |-> <<>>,         \* websites for which a row was appended
     succeeded |-> <<>>]        \* websites counted in successCount

Batches == {"b1", "b2"}  \* slots for the batches in progress together

ScorerIdle == scorerReply = [kind |-> "prose", object |-> DefaultThreat] /\ scoredRow = None

RefreshIdle ==
    /\ websiteRows = [w \in Websites |-> "active"]
    /\ batch = [b \in Batches |-> IdleBatch]
    /\ assessments = <<>>

\* automationService.js: the tasks it can schedule, by their registry key.
TaskNames == {"weeklyRefresh", "monthlyReports", "subscriptionReminders"}

SchedulerIdle ==
    /\ cronJobs = <<>>
    /\ scheduledJobs = [name \in TaskNames |-> 0]
    /\ tasksStopped = FALSE

Users == {"u1", "u2"}
Requests == {"q1", "q2"}  \* slots for the payment requests in progress together

\* The payment controller: the locals of one request.
IdleRequest ==
    [pc |-> "idle", handler |-> NULL, userId |-> NULL,
     stripeCustomerId |-> FALSE,   \* a customer id is at hand
     subscription |-> 0,           \* the provider's subscription, 0: none
     payment_intent_id |-> 0,      \* the payment intent, 0: none
     status |-> 0]                 \* the HTTP status of the response, 0: none yet

SubscriptionIdle ==
    /\ subscriptions = <<>>
    /\ customers = [u \in Users |-> FALSE]
    /\ request = [q \in Requests |-> IdleRequest]
    /\ issued = 0

\* generateMonthlyReports: the locals of the invocation.
IdleReportRun ==
    [pc |-> "idle", websites |-> <<>>, position |-> 0,
     successCount |-> 0, errorCount |-> 0,
     reportMonth |-> NULL,      \* the month of new Date()
     threat |-> None, competitors |-> <<>>, reportData |-> None,
     invocation |-> 0]          \* bookkeeping: the invocations so far

ReportIdle ==
    /\ reportRun = IdleReportRun
    /\ beamReports = <<>>
    /\ sentEmails = <<>>

ServiceIdle == SchedulerIdle /\ SubscriptionIdle /\ ReportIdle

Init ==
    /\ DiscoveryInit
    /\ AggregateIdle /\ SupervisorIdle /\ ThreatIdle /\ ScorerIdle /\ RefreshIdle
    /\ ServiceIdle

Next ==
    \/ \E r \in Runs, w \in WebsiteIds, ok \in BOOLEAN : StartDiscovery(r, w, ok)
    \/ \E r \in Runs, ok \in BOOLEAN : ExtractContext(r, ok)
    \/ \E r \in Runs, response \in SearchResponses : Agent1(r, response)
    \/ \E r \in Runs, response \in SearchResponses : Agent2(r, response)
    \/ \E r \in Runs, response \in SearchResponses : Agent3(r, response)
    \/ \E r \in Runs, reply \in SupervisorReplies : Supervise(r, reply)
    \/ \E r \in Runs, reply \in ScorerReplies : Score(r, reply)
    \/ \E r \in Runs, ok \in BOOLEAN : Store(r, ok)
    \/ \E r \in Runs, ok \in BOOLEAN : Complete(r, ok)
    \/ \E r \in Runs, ok \in BOOLEAN : Catch(r, ok)

Spec == Init /\ [][Next]_vars

-----------------------------------------------------------------------------
(* SpecAggregate: the merge of discoverCompetitors on arbitrary agent results *)

RECURSIVE SeqsUpTo(_, _)
SeqsUpTo(S, n) ==
    IF n = 0 THEN {<<>>}
    ELSE LET shorter == SeqsUpTo(S, n - 1)
         IN  shorter \cup {Append(q, x) : q \in shorter, x \in S}

CandidatePool ==
    { [name |-> n, url |-> u, description |-> "text", source |-> "tavily_search"] :
        n \in {"A", "B"}, u \in {"u1", "u2"} }

AgentResultLists == SeqsUpTo(CandidatePool, MaxAgentResults)

AggregateInit ==
    /\ aggIn \in AgentResultLists \X AgentResultLists \X AgentResultLists
    /\ aggOut = None
    /\ DiscoveryIdle /\ SupervisorIdle /\ ThreatIdle /\ ScorerIdle /\ RefreshIdle
    /\ ServiceIdle

Aggregate ==
    /\ aggOut = None
    /\ aggOut' = Some(UniqueCandidates(aggIn[1], aggIn[2], aggIn[3]))
    /\ UNCHANGED <<aggIn, discoveryVars, supervisorVars, threatVars,
                   scorerVars, refreshVars, serviceVars>>

AggregateNext == Aggregate

SpecAggregate == AggregateInit /\ [][AggregateNext]_vars

-----------------------------------------------------------------------------
(* SpecSupervisor: supervisorAgent on arbitrary judgment lists *)

UrlNames == <<"u1", "u2", "u3", "u4", "u5", "u6", "u7", "u8">>

Confidences == {79, 80, 95}

\* Judgment lists of n entries; the entry at position i is about UrlNames[i].
JudgmentLists(n) ==
    { [i \in 1..n |-> Judgment("N", UrlNames[i], f[i][1], f[i][2])] :
        f \in [1..n -> BOOLEAN \X Confidences] }

\* The reply carries a validated_competitors list of up to MaxJudgments
\* entries, or it is one of the replies without a list.
SupervisorInit ==
    /\ supKind \in {"error", "prose", "badjson", "nolist", "list"}
    /\ IF supKind = "list"
       THEN \E n \in 0..MaxJudgments : supIn \in JudgmentLists(n)
       ELSE supIn = <<>>
    /\ supOut = None
    /\ supRaised = FALSE
    /\ DiscoveryIdle /\ AggregateIdle /\ ThreatIdle /\ ScorerIdle /\ RefreshIdle
    /\ ServiceIdle

SuperviseReply ==
    /\ supOut = None
    /\ LET outcome == supervisorAgent([kind |-> supKind, entries |-> supIn])
       IN  /\ supOut' = Some(outcome.value)
           /\ supRaised' = outcome.raised
    /\ UNCHANGED <<supIn, supKind, discoveryVars, aggregateVars, threatVars,
                   scorerVars, refreshVars, serviceVars>>

SupervisorNext == SuperviseReply

SpecSupervisor == SupervisorInit /\ [][SupervisorNext]_vars

-----------------------------------------------------------------------------
(* calculateThreatScore *)

Min(a, b) == IF a < b THEN a ELSE b
Max(a, b) == IF a > b THEN a ELSE b

RECURSIVE SumSeq(_)
SumSeq(s) == IF s = <<>> THEN 0 ELSE Head(s) + SumSeq(Tail(s))

RECURSIVE MaxSeq(_)
MaxSeq(s) == IF Len(s) = 1 THEN s[1] ELSE Max(Head(s), MaxSeq(Tail(s)))

\* Math.round of a / b for a >= 0, b > 0
RoundDiv(a, b) == (2 * a + b) \div (2 * b)

\* ORDER BY threat_score DESC; NULL sorts last.
ScoreBefore(a, b) == IF IsNone(b) THEN TRUE ELSE IF IsNone(a) THEN FALSE ELSE Val(a) >= Val(b)

RECURSIVE InsertScore(_, _)
InsertScore(sorted, x) ==
    IF sorted = <<>> THEN <<x>>
    ELSE IF ScoreBefore(Head(sorted), x)
         THEN <<Head(sorted)>> \o InsertScore(Tail(sorted), x)
         ELSE <<x>> \o sorted

RECURSIVE OrderByScoreDesc(_)
OrderByScoreDesc(s) ==
    IF s = <<>> THEN <<>>
    ELSE InsertScore(OrderByScoreDesc(Tail(s)), Head(s))

\* SELECT threat_score FROM competitors WHERE website_id = ? AND
\* deleted_at IS NULL ORDER BY threat_score DESC, over the rows of the website.
SelectLiveScores(table) ==
    LET live == SelectSeq(table, LAMBDA row : row.deleted_at = NULL)
    IN  OrderByScoreDesc([i \in 1..Len(live) |-> live[i].threat_score])

EmptyAssessment ==
    [threat_level |-> "LOW", threat_score |-> 20, competitor_count |-> 0,
     average_competitor_score |-> 0, market_saturation |-> "low",
     ai_search_visibility |-> "low"]

\* The level and score of the count bracket.
BracketLevel(competitorCount) ==
    IF competitorCount >= 10 THEN "CRITICAL"
    ELSE IF competitorCount >= 7 THEN "HIGH"
    ELSE IF competitorCount >= 5 THEN "MEDIUM"
    ELSE IF competitorCount >= 3 THEN "MEDIUM"
    ELSE "LOW"

\* Variant for C10: the 7-9 bracket with the step of the >= 10 bracket.
BracketScoreWrongStep(competitorCount) ==
    IF competitorCount >= 10 THEN Min(100, 80 + (competitorCount - 10) * 2)
    ELSE IF competitorCount >= 7 THEN Min(100, 65 + (competitorCount - 7) * 2)
    ELSE IF competitorCount >= 5 THEN Min(100, 50 + (competitorCount - 5) * 3)
    ELSE IF competitorCount >= 3 THEN 40 + competitorCount * 2
    ELSE 20 + competitorCount * 5

BracketScore(competitorCount) ==
    IF competitorCount >= 10 THEN Min(100, 80 + (competitorCount - 10) * 2)
    ELSE IF competitorCount >= 7 THEN Min(100, 65 + (competitorCount - 7) * 3)
    ELSE IF competitorCount >= 5 THEN Min(100, 50 + (competitorCount - 5) * 3)
    ELSE IF competitorCount >= 3 THEN 40 + competitorCount * 2
    ELSE 20 + competitorCount * 5

\* The adjustment by the strongest competitor.  In the second branch the two
\* tests run in sequence on the same variable.
AdjustedLevel(level, maxScore) ==
    IF maxScore >= 90 THEN "CRITICAL"
    ELSE IF maxScore >= 75
         THEN LET afterLow == IF level = "LOW" THEN "MEDIUM" ELSE level
              IN  IF afterLow = "MEDIUM" THEN "HIGH" ELSE afterLow
         ELSE level

\* Variant for C25: the level is adjusted and the score is left as it was.
AdjustedScoreUnchanged(score, maxScore) == score

AdjustedScore(score, maxScore) ==
    IF maxScore >= 90 THEN Max(score, 85)
    ELSE IF maxScore >= 75 THEN Max(score, 70)
    ELSE score

MarketSaturation(competitorCount) ==
    IF competitorCount >= 10 THEN "very_high"
    ELSE IF competitorCount >= 7 THEN "high"
    ELSE IF competitorCount >= 5 THEN "medium"
    ELSE IF competitorCount >= 3 THEN "medium"
    ELSE "very_low"

AiSearchVisibility(count) ==
    IF count >= 20 THEN "very_high"
    ELSE IF count >= 15 THEN "high"
    ELSE IF count >= 10 THEN "medium"
    ELSE IF count >= 5 THEN "low"
    ELSE "very_low"

\* c.threat_score || 50
ThreatScores(rows) == [i \in 1..Len(rows) |-> OrDefault(rows[i], 50)]

\* table: the competitors rows of the website; keywords: the COUNT(*) of its
\* keywords rows.
calculateThreatScore(table, keywords) ==
    LET competitors_ == SelectLiveScores(table)
    IN  IF Len(competitors_) = 0
        THEN EmptyAssessment
        ELSE LET competitorCount == Len(competitors_)
                 threatScores == ThreatScores(competitors_)
                 averageScore == RoundDiv(SumSeq(threatScores), Len(threatScores))
                 maxScore == MaxSeq(threatScores)
                 threatLevel == AdjustedLevel(BracketLevel(competitorCount), maxScore)
                 threatScore == AdjustedScore(BracketScore(competitorCount), maxScore)
             IN  [threat_level |-> threatLevel,
                  threat_score |-> Min(100, threatScore),
                  competitor_count |-> competitorCount,
                  average_competitor_score |-> averageScore,
                  market_saturation |-> MarketSaturation(competitorCount),
                  ai_search_visibility |-> AiSearchVisibility(keywords)]

-----------------------------------------------------------------------------
(* SpecThreat: calculateThreatScore over a website's competitors and keywords *)

\* The score of the rows that fill the table up to its count.
Filler == Some(60)

VariedScores == {None, Some(0), Some(74), Some(75), Some(89), Some(90)}

LiveRow(score) == [threat_score |-> score, deleted_at |-> NULL]
DeletedRow(score) == [threat_score |-> score, deleted_at |-> "2024-01-01"]

Copies(row, n) == [i \in 1..n |-> row]

\* Tables of up to MaxCompetitors live rows, of which up to MaxVaried carry
\* a score drawn from VariedScores and the others Filler, followed by
\* up to MaxDeleted soft-deleted rows.
\* Rows are a bag: one order is drawn for each choice of varied scores.
VariedRows ==
    { [i \in 1..Len(q) |-> LiveRow(q[i])] :
        q \in { p \in SeqsUpTo(VariedScores, MaxVaried) :
                  \A i \in 1..Len(p) : \A j \in i..Len(p) : ScoreBefore(p[i], p[j]) } }

CompetitorTables ==
    { varied \o Copies(LiveRow(Filler), filler)
             \o Copies(DeletedRow(Some(95)), deleted) :
        varied \in VariedRows,
        filler \in 0..(MaxCompetitors - MaxVaried),
        deleted \in 0..MaxDeleted }

ThreatInit ==
    /\ siteCompetitors \in CompetitorTables
    /\ keywordCount \in 0..MaxKeywords
    /\ assessment = None
    /\ DiscoveryIdle /\ AggregateIdle /\ SupervisorIdle /\ ScorerIdle /\ RefreshIdle
    /\ ServiceIdle

CalculateThreat ==
    /\ assessment = None
    /\ assessment' = Some(calculateThreatScore(siteCompetitors, keywordCount))
    /\ UNCHANGED <<siteCompetitors, keywordCount, discoveryVars, aggregateVars,
                   supervisorVars,
                   scorerVars, refreshVars, serviceVars>>

ThreatNext == CalculateThreat

SpecThreat == ThreatInit /\ [][ThreatNext]_vars

-----------------------------------------------------------------------------
(* SpecScorer: steps 5-6 of discoverCompetitors for one validated competitor *)

\* The object the reasoning service wrote: any total (absent, 0, inside and
\* outside 0..100), any level (absent, a listed one, another word) and any
\* four sub-scores, each taken as it is.
TotalScores == {None, Some(0), Some(40), Some(90), Some(100), Some(150)}
LevelWords == {NULL, "CRITICAL", "LOW", "SEVERE"}
SubScoreLists == {<<10, 10, 10, 10>>, <<25, 25, 20, 20>>, <<25, 25, 25, 25>>,
                  <<30, 30, 30, 30>>}

ScorerObjects ==
    { [total_threat_score |-> t, threat_level |-> l, sub_scores |-> q] :
        t \in TotalScores, l \in LevelWords, q \in SubScoreLists }

ScorerInit ==
    /\ scorerReply \in
          { [kind |-> k, object |-> DefaultThreat] : k \in {"error", "prose", "badjson"} }
          \cup { [kind |-> "object", object |-> o] : o \in ScorerObjects }
    /\ scoredRow = None
    /\ DiscoveryIdle /\ AggregateIdle /\ SupervisorIdle /\ ThreatIdle /\ RefreshIdle
    /\ ServiceIdle

\* The competitor is scored and its row is built from the merged object.
ScoreAndStore(confidence) ==
    /\ scoredRow = None
    /\ LET competitor == Judgment("A", "u1", TRUE, confidence)
           threatData == calculateCompetitorThreat(scorerReply).value
       IN  scoredRow' = Some(CompetitorRow(1, "w1", WithScores(competitor, threatData)))
    /\ UNCHANGED <<scorerReply, discoveryVars, aggregateVars, supervisorVars,
                   threatVars, refreshVars, serviceVars>>

ScorerNext == \E confidence \in {80, 95} : ScoreAndStore(confidence)

SpecScorer == ScorerInit /\ [][ScorerNext]_vars

-----------------------------------------------------------------------------
(* SpecRefresh: scheduleWeeklyRefresh and performWeeklyRefresh *)

\* WHERE w.deleted_at IS NULL AND w.status = 'active'
Active == {w \in Websites : websiteRows[w] = "active"}

\* ORDER BY w.updated_at ASC: the selected websites in one of their orders.
ActiveOrders ==
    {order \in SeqsUpTo(Websites, Cardinality(Websites)) :
        /\ Len(order) = Cardinality(Active)
        /\ Range(order) = Active}

InProgress(b) == batch[b].pc \notin {"idle", "done", "failed"}

\* A new batch takes slot b1 when no batch is in progress there, and b2
\* otherwise.  No test of the code keeps a batch from starting while another
\* is in progress.
FreeBatch(b) ==
    /\ ~InProgress(b)
    /\ b = "b2" => InProgress("b1")

\* The discoverCompetitors invocations a batch in progress has yet to make.
Reserved(b) ==
    IF batch[b].pc = "select" THEN Cardinality(Active)
    ELSE IF InProgress(b)
         THEN Len(batch[b].websites) - Len(batch[b].visited)
         ELSE 0

\* The outcome of invocation r is awaited by a batch.
Awaited(r) == \E b \in Batches : batch[b].pc = "discovering" /\ batch[b].slot = r

FreeSlotForBatch(r) ==
    /\ ~InFlight(r) /\ ~Awaited(r)
    /\ r = "r2" => (InFlight("r1") \/ Awaited("r1"))

Current(bt) == bt.websites[bt.position]

\* The for-of loop moves to the next website, or the function logs the
\* counts and returns.
NextItem(bt) ==
    IF bt.position = Len(bt.websites)
    THEN [bt EXCEPT !.pc = "done", !.slot = NULL, !.threatData = None]
    ELSE [bt EXCEPT !.pc = "discover", !.position = @ + 1,
                    !.slot = NULL, !.threatData = None]

\* Variant for C12: the loop body without its try/catch, so an exception
\* reaches the outer catch clause and ends the function.
CatchItemAborts(bt) == [bt EXCEPT !.pc = "failed", !.slot = NULL, !.threatData = None]

\* catch (error) { errorCount++; ... } of the loop body
CatchItem(bt) == NextItem([bt EXCEPT !.errorCount = @ + 1])

\* The competitors rows of a website as calculateThreatScore reads them.
CompetitorsOf(websiteId) ==
    LET rows == SelectSeq(competitors, LAMBDA row : row.website_id = websiteId)
    IN  [i \in 1..Len(rows) |-> [threat_score |-> Some(rows[i].threat_score),
                                 deleted_at |-> rows[i].deleted_at]]

\* Variant for C13: the assessment of a website replaces its earlier row.
ReplaceAssessment(table, websiteId, threatData) ==
    LET row == [id |-> Len(table) + 1, website_id |-> websiteId,
                threat_level |-> threatData.threat_level,
                threat_score |-> threatData.threat_score,
                competitor_count |-> threatData.competitor_count,
                average_competitor_score |-> threatData.average_competitor_score,
                market_saturation |-> NULL, ai_search_visibility |-> NULL]
    IN  IF \E i \in 1..Len(table) : table[i].website_id = websiteId
        THEN [i \in 1..Len(table) |->
                IF table[i].website_id = websiteId
                THEN [row EXCEPT !.id = table[i].id] ELSE table[i]]
        ELSE Append(table, row)

\* INSERT INTO threat_assessments (id, website_id, threat_level, threat_score,
\* competitor_count, average_competitor_score, assessed_at)
\* VALUES (UUID(), ?, ?, ?, ?, ?, NOW()); the other columns take their default.
InsertAssessment(table, websiteId, threatData) ==
    Append(table, [id |-> Len(table) + 1, website_id |-> websiteId,
                   threat_level |-> threatData.threat_level,
                   threat_score |-> threatData.threat_score,
                   competitor_count |-> threatData.competitor_count,
                   average_competitor_score |-> threatData.average_competitor_score,
                   market_saturation |-> NULL, ai_search_visibility |-> NULL])

\* The cron callback of scheduleWeeklyRefresh fires, or performWeeklyRefresh
\* is called directly: the function starts and issues its select.  A batch is
\* started only while the invocations it may make fit in MaxInvocations.
StartWeeklyRefresh(b) ==
    /\ FreeBatch(b)
    /\ started + Reserved("b1") + Reserved("b2") + Cardinality(Active) <= MaxInvocations
    /\ batch' = [batch EXCEPT ![b] = [IdleBatch EXCEPT !.pc = "select"]]
    /\ UNCHANGED <<websiteRows, assessments>>
    /\ UNCHANGED <<discoveryVars, aggregateVars, supervisorVars, threatVars, scorerVars, serviceVars>>

\* The select of the active websites returns, or raises into the outer catch.
SelectWebsites(b, ok) ==
    /\ batch[b].pc = "select"
    /\ \E order \in ActiveOrders :
          batch' = [batch EXCEPT ![b] =
                      IF ok
                      THEN [@ EXCEPT !.websites = order,
                                     !.position = IF order = <<>> THEN 0 ELSE 1,
                                     !.pc = IF order = <<>> THEN "done" ELSE "discover"]
                      ELSE [@ EXCEPT !.pc = "failed"]]
    /\ UNCHANGED <<websiteRows, assessments>>
    /\ UNCHANGED <<discoveryVars, aggregateVars, supervisorVars, threatVars, scorerVars, serviceVars>>

\* The loop body starts: discoverCompetitors(website.id) is called.
CallDiscovery(b, r, ok) ==
    /\ batch[b].pc = "discover"
    /\ FreeSlotForBatch(r)
    /\ Invoke(r, Current(batch[b]), ok)
    /\ batch' = [batch EXCEPT ![b].pc = "discovering",
                              ![b].slot = r,
                              ![b].visited = Append(@, Current(batch[b]))]
    /\ UNCHANGED <<websiteRows, assessments>>
    /\ UNCHANGED <<aggregateVars, supervisorVars, threatVars, scorerVars, serviceVars>>

\* The awaited discoverCompetitors has returned or thrown; its frame is
\* released.
AwaitDiscovery(b) ==
    /\ batch[b].pc = "discovering"
    /\ Ended(batch[b].slot)
    /\ run' = [run EXCEPT ![batch[b].slot] = Idle]
    /\ batch' = [batch EXCEPT ![b] =
                    IF run[batch[b].slot].pc = "thrown"
                    THEN CatchItem([@ EXCEPT !.threw = @ + 1,
                                             !.discoveryThrew = @ \cup {Current(batch[b])}])
                    ELSE [@ EXCEPT !.pc = "score", !.slot = NULL]]
    /\ UNCHANGED <<websiteRows, assessments>>
    /\ UNCHANGED <<jobs, competitors, started>>
    /\ UNCHANGED <<aggregateVars, supervisorVars, threatVars, scorerVars, serviceVars>>

\* calculateThreatScore(website.id) returns, or one of its queries raises.
ScoreWebsite(b, ok, keywords) ==
    /\ batch[b].pc = "score"
    /\ batch' = [batch EXCEPT ![b] =
                    IF ok
                    THEN [@ EXCEPT !.pc = "insert",
                                   !.threatData =
                                       Some(calculateThreatScore(
                                                CompetitorsOf(Current(batch[b])), keywords))]
                    ELSE CatchItem([@ EXCEPT !.threw = @ + 1])]
    /\ UNCHANGED <<websiteRows, assessments>>
    /\ UNCHANGED <<discoveryVars, aggregateVars, supervisorVars, threatVars, scorerVars, serviceVars>>

\* The threat assessment is stored.
StoreAssessment(b, ok) ==
    /\ batch[b].pc = "insert"
    /\ IF ok
       THEN /\ assessments' = InsertAssessment(assessments, Current(batch[b]),
                                               Val(batch[b].threatData))
            /\ batch' = [batch EXCEPT ![b].pc = "touch",
                                      ![b].threatData = None,
                                      ![b].inserted = Append(@, Current(batch[b]))]
       ELSE /\ assessments' = assessments
            /\ batch' = [batch EXCEPT ![b] = CatchItem([@ EXCEPT !.threw = @ + 1])]
    /\ UNCHANGED websiteRows
    /\ UNCHANGED <<discoveryVars, aggregateVars, supervisorVars, threatVars, scorerVars, serviceVars>>

\* UPDATE websites SET updated_at = NOW() WHERE id = ?, then successCount++.
TouchWebsite(b, ok) ==
    /\ batch[b].pc = "touch"
    /\ batch' = [batch EXCEPT ![b] =
                    IF ok
                    THEN NextItem([@ EXCEPT !.successCount = @ + 1,
                                            !.succeeded = Append(@, Current(batch[b]))])
                    ELSE CatchItem([@ EXCEPT !.threw = @ + 1])]
    /\ UNCHANGED <<websiteRows, assessments>>
    /\ UNCHANGED <<discoveryVars, aggregateVars, supervisorVars, threatVars, scorerVars, serviceVars>>

\* What the collaborators answer during a batch.
RefreshKeywordCounts == {0, 12}

RefreshSearchResponses == {response \in SearchResponses : response.kind = "ok"}

RefreshSupervisorReplies ==
    {reply \in SupervisorReplies : reply.kind \in {"error", "list"}}

RefreshScorerReplies == {reply \in ScorerReplies : reply.kind \in {"error", "object"}}

RefreshInit ==
    /\ websiteRows \in [Websites -> {"active", "inactive", "deleted"}]
    /\ batch = [b \in Batches |-> IdleBatch]
    /\ assessments = <<>>
    /\ DiscoveryInit
    /\ AggregateIdle /\ SupervisorIdle /\ ThreatIdle /\ ScorerIdle
    /\ ServiceIdle

RefreshNext ==
    \/ \E b \in Batches : StartWeeklyRefresh(b)
    \/ \E b \in Batches, ok \in BOOLEAN : SelectWebsites(b, ok)
    \/ \E b \in Batches, r \in Runs, ok \in BOOLEAN : CallDiscovery(b, r, ok)
    \/ \E r \in Runs, ok \in BOOLEAN : ExtractContext(r, ok)
    \/ \E r \in Runs, response \in RefreshSearchResponses : Agent1(r, response)
    \/ \E r \in Runs, response \in RefreshSearchResponses : Agent2(r, response)
    \/ \E r \in Runs, response \in RefreshSearchResponses : Agent3(r, response)
    \/ \E r \in Runs, reply \in RefreshSupervisorReplies : Supervise(r, reply)
    \/ \E r \in Runs, reply \in RefreshScorerReplies : Score(r, reply)
    \/ \E r \in Runs, ok \in BOOLEAN : Store(r, ok)
    \/ \E r \in Runs, ok \in BOOLEAN : Complete(r, ok)
    \/ \E r \in Runs, ok \in BOOLEAN : Catch(r, ok)
    \/ \E b \in Batches : AwaitDiscovery(b)
    \/ \E b \in Batches, ok \in BOOLEAN, keywords \in RefreshKeywordCounts :
          ScoreWebsite(b, ok, keywords)
    \/ \E b \in Batches, ok \in BOOLEAN : StoreAssessment(b, ok)
    \/ \E b \in Batches, ok \in BOOLEAN : TouchWebsite(b, ok)

SpecRefresh == RefreshInit /\ [][RefreshNext]_vars

-----------------------------------------------------------------------------
(* SpecScheduler: the cron tasks of automationService.js *)

\* cron.schedule(expression, callback): a new task, running from its creation.
\* fired counts the times the clock has invoked its callback.
CronSchedule(tasks, name) ==
    Append(tasks, [name |-> name, running |-> TRUE, fired |-> 0])

\* The task is created and stored under its key of scheduledJobs; an entry
\* already under that key is replaced.
ScheduleTask(state, name) ==
    LET tasks == CronSchedule(state.tasks, name)
    IN  [tasks |-> tasks,
         registry |-> [state.registry EXCEPT ![name] = Len(tasks)]]

scheduleWeeklyRefresh(state) == ScheduleTask(state, "weeklyRefresh")
scheduleMonthlyReports(state) == ScheduleTask(state, "monthlyReports")
scheduleSubscriptionReminders(state) == ScheduleTask(state, "subscriptionReminders")

\* Object.entries(scheduledJobs): the tasks held under a key.
Registered == {scheduledJobs[name] : name \in TaskNames} \ {0}

\* initializeScheduledTasks: the three schedule functions, in order.
InitializeScheduledTasks ==
    /\ Len(cronJobs) < MaxInitializations * Cardinality(TaskNames)
    /\ LET state == scheduleSubscriptionReminders(
                        scheduleMonthlyReports(
                            scheduleWeeklyRefresh(
                                [tasks |-> cronJobs, registry |-> scheduledJobs])))
       IN  /\ cronJobs' = state.tasks
           /\ scheduledJobs' = state.registry
    /\ tasksStopped' = FALSE
    /\ UNCHANGED <<discoveryVars, aggregateVars, supervisorVars, threatVars,
                   scorerVars, refreshVars, subscriptionVars, reportVars>>

\* stopAllTasks: job.stop() for every entry of scheduledJobs; the entries stay.
StopAllTasks ==
    /\ cronJobs' = [j \in 1..Len(cronJobs) |->
                      IF j \in Registered
                      THEN [cronJobs[j] EXCEPT !.running = FALSE]
                      ELSE cronJobs[j]]
    /\ tasksStopped' = TRUE
    /\ UNCHANGED scheduledJobs
    /\ UNCHANGED <<discoveryVars, aggregateVars, supervisorVars, threatVars,
                   scorerVars, refreshVars, subscriptionVars, reportVars>>

\* The clock reaches the expression of a running task: its callback is invoked
\* (performWeeklyRefresh, generateMonthlyReports or checkSubscriptionRenewals;
\* here only the invocation is recorded).
CronTick ==
    \E j \in 1..Len(cronJobs) :
        /\ cronJobs[j].running
        /\ cronJobs[j].fired < MaxTicks
        /\ cronJobs' = [cronJobs EXCEPT ![j].fired = @ + 1]
        /\ UNCHANGED <<scheduledJobs, tasksStopped>>
        /\ UNCHANGED <<discoveryVars, aggregateVars, supervisorVars, threatVars,
                       scorerVars, refreshVars, subscriptionVars, reportVars>>

SchedulerInit ==
    /\ SchedulerIdle /\ SubscriptionIdle /\ ReportIdle
    /\ DiscoveryIdle /\ AggregateIdle /\ SupervisorIdle /\ ThreatIdle
    /\ ScorerIdle /\ RefreshIdle

SchedulerNext ==
    \/ InitializeScheduledTasks
    \/ StopAllTasks
    \/ CronTick

SpecScheduler == SchedulerInit /\ [][SchedulerNext]_vars

-----------------------------------------------------------------------------
(* SpecSubscription: createSubscription and confirmPayment of the payment     *)
(* controller, over the subscriptions table                                   *)

Busy(q) == request[q].pc \notin {"idle", "done"}

\* A new request takes slot q1 when no request is in progress there, and q2
\* otherwise (the slots are interchangeable).
FreeRequest(q) ==
    /\ ~Busy(q)
    /\ q = "q2" => Busy("q1")

\* createSubscription requests that have not reached the provider yet.
Creating ==
    {q \in Requests : request[q].pc \in {"check", "customer", "storeCustomer", "create"}}

\* res.status(status).json(...): the request is answered.
Respond(q, status) ==
    request' = [request EXCEPT ![q] = [IdleRequest EXCEPT !.pc = "done",
                                                          !.status = status]]

\* SELECT id, status FROM subscriptions WHERE user_id = ? AND status = 'active'
ActiveSubscriptions(table, userId) ==
    {i \in 1..Len(table) : table[i].user_id = userId /\ table[i].status = "active"}

\* INSERT INTO subscriptions (id, user_id, stripe_subscription_id, ...,
\* stripe_payment_intent_id, status, ...) VALUES (UUID(), ?, ?, ..., 'incomplete', ...)
InsertSubscription(table, userId, subscription, paymentIntent) ==
    Append(table, [id |-> Len(table) + 1, user_id |-> userId,
                   stripe_subscription_id |-> subscription,
                   stripe_payment_intent_id |-> paymentIntent,
                   status |-> "incomplete"])

\* UPDATE subscriptions SET status = 'active'
\* WHERE stripe_payment_intent_id = ? AND user_id = ?
ActivateSubscription(table, paymentIntent, userId) ==
    [i \in 1..Len(table) |->
        IF table[i].stripe_payment_intent_id = paymentIntent /\ table[i].user_id = userId
        THEN [table[i] EXCEPT !.status = "active"]
        ELSE table[i]]

\* POST /api/subscription/create by user u: req.user carries the user's row.
\* A request is taken only while the provider's subscriptions fit in
\* MaxSubscriptions.
CreateSubscription(q, u) ==
    /\ FreeRequest(q)
    /\ issued + Cardinality(Creating) < MaxSubscriptions
    /\ request' = [request EXCEPT ![q] =
           [IdleRequest EXCEPT !.pc = "check", !.handler = "createSubscription",
                               !.userId = u, !.stripeCustomerId = customers[u]]]
    /\ UNCHANGED <<subscriptions, customers, issued>>
    /\ UNCHANGED <<discoveryVars, aggregateVars, supervisorVars, threatVars,
                   scorerVars, refreshVars, schedulerVars, reportVars>>

\* The select of the active subscription returns.
CheckExisting(q, ok) ==
    /\ request[q].pc = "check"
    /\ IF ~ok THEN Respond(q, 500)
       ELSE IF ActiveSubscriptions(subscriptions, request[q].userId) # {}
       THEN Respond(q, 400)
       ELSE request' = [request EXCEPT ![q].pc =
                IF request[q].stripeCustomerId THEN "create" ELSE "customer"]
    /\ UNCHANGED <<subscriptions, customers, issued>>
    /\ UNCHANGED <<discoveryVars, aggregateVars, supervisorVars, threatVars,
                   scorerVars, refreshVars, schedulerVars, reportVars>>

\* paymentService.createCustomer returns.
CreateCustomer(q, ok) ==
    /\ request[q].pc = "customer"
    /\ IF ~ok THEN Respond(q, 500)
       ELSE request' = [request EXCEPT ![q].pc = "storeCustomer",
                                       ![q].stripeCustomerId = TRUE]
    /\ UNCHANGED <<subscriptions, customers, issued>>
    /\ UNCHANGED <<discoveryVars, aggregateVars, supervisorVars, threatVars,
                   scorerVars, refreshVars, schedulerVars, reportVars>>

\* UPDATE users SET stripe_customer_id = ? WHERE id = ? returns.
StoreCustomer(q, ok) ==
    /\ request[q].pc = "storeCustomer"
    /\ IF ~ok
       THEN Respond(q, 500) /\ UNCHANGED customers
       ELSE /\ customers' = [customers EXCEPT ![request[q].userId] = TRUE]
            /\ request' = [request EXCEPT ![q].pc = "create"]
    /\ UNCHANGED <<subscriptions, issued>>
    /\ UNCHANGED <<discoveryVars, aggregateVars, supervisorVars, threatVars,
                   scorerVars, refreshVars, schedulerVars, reportVars>>

\* paymentService.createSubscription returns: it rejects, or the provider has
\* created a subscription, with or without a payment intent on its invoice.
ProviderCreate(q, answer) ==
    /\ request[q].pc = "create"
    /\ CASE answer = "error" -> Respond(q, 500) /\ UNCHANGED issued
         [] answer = "noIntent" -> Respond(q, 500) /\ issued' = issued + 1
         [] answer = "subscription" ->
                /\ issued' = issued + 1
                /\ request' = [request EXCEPT ![q].pc = "insert",
                                              ![q].subscription = issued + 1,
                                              ![q].payment_intent_id = issued + 1]
    /\ UNCHANGED <<subscriptions, customers>>
    /\ UNCHANGED <<discoveryVars, aggregateVars, supervisorVars, threatVars,
                   scorerVars, refreshVars, schedulerVars, reportVars>>

\* The insert of the subscription row returns, and the request is answered.
StoreSubscription(q, ok) ==
    /\ request[q].pc = "insert"
    /\ IF ~ok
       THEN Respond(q, 500) /\ UNCHANGED subscriptions
       ELSE /\ subscriptions' = InsertSubscription(subscriptions, request[q].userId,
                                                   request[q].subscription,
                                                   request[q].payment_intent_id)
            /\ Respond(q, 200)
    /\ UNCHANGED <<customers, issued>>
    /\ UNCHANGED <<discoveryVars, aggregateVars, supervisorVars, threatVars,
                   scorerVars, refreshVars, schedulerVars, reportVars>>

\* POST /api/subscription/confirm-payment by user u; the body names one of the
\* payment intents the provider has issued, or none (0).
ConfirmPayment(q, u) ==
    /\ FreeRequest(q)
    /\ \E intent \in 0..issued :
          IF intent = 0
          THEN Respond(q, 400)
          ELSE request' = [request EXCEPT ![q] =
                   [IdleRequest EXCEPT !.pc = "confirm", !.handler = "confirmPayment",
                                       !.userId = u, !.payment_intent_id = intent]]
    /\ UNCHANGED <<subscriptions, customers, issued>>
    /\ UNCHANGED <<discoveryVars, aggregateVars, supervisorVars, threatVars,
                   scorerVars, refreshVars, schedulerVars, reportVars>>

IntentStatuses == {"error", "succeeded", "requires_action", "requires_payment_method"}

\* paymentService.confirmPayment returns the payment intent, or rejects.
ProviderConfirm(q, status) ==
    /\ request[q].pc = "confirm"
    /\ CASE status = "error" -> Respond(q, 500)
         [] status = "succeeded" -> request' = [request EXCEPT ![q].pc = "activate"]
         [] status = "requires_action" -> Respond(q, 200)
         [] OTHER -> Respond(q, 400)
    /\ UNCHANGED <<subscriptions, customers, issued>>
    /\ UNCHANGED <<discoveryVars, aggregateVars, supervisorVars, threatVars,
                   scorerVars, refreshVars, schedulerVars, reportVars>>

\* The update of the subscription status returns, and the request is answered.
Activate(q, ok) ==
    /\ request[q].pc = "activate"
    /\ IF ~ok
       THEN Respond(q, 500) /\ UNCHANGED subscriptions
       ELSE /\ subscriptions' = ActivateSubscription(subscriptions,
                                                     request[q].payment_intent_id,
                                                     request[q].userId)
            /\ Respond(q, 200)
    /\ UNCHANGED <<customers, issued>>
    /\ UNCHANGED <<discoveryVars, aggregateVars, supervisorVars, threatVars,
                   scorerVars, refreshVars, schedulerVars, reportVars>>

SubscriptionInit ==
    /\ SubscriptionIdle /\ SchedulerIdle /\ ReportIdle
    /\ DiscoveryIdle /\ AggregateIdle /\ SupervisorIdle /\ ThreatIdle
    /\ ScorerIdle /\ RefreshIdle

SubscriptionNext ==
    \/ \E q \in Requests, u \in Users : CreateSubscription(q, u)
    \/ \E q \in Requests, ok \in BOOLEAN : CheckExisting(q, ok)
    \/ \E q \in Requests, ok \in BOOLEAN : CreateCustomer(q, ok)
    \/ \E q \in Requests, ok \in BOOLEAN : StoreCustomer(q, ok)
    \/ \E q \in Requests, answer \in {"error", "noIntent", "subscription"} :
          ProviderCreate(q, answer)
    \/ \E q \in Requests, ok \in BOOLEAN : StoreSubscription(q, ok)
    \/ \E q \in Requests, u \in Users : ConfirmPayment(q, u)
    \/ \E q \in Requests, status \in IntentStatuses : ProviderConfirm(q, status)
    \/ \E q \in Requests, ok \in BOOLEAN : Activate(q, ok)

SpecSubscription == SubscriptionInit /\ [][SubscriptionNext]_vars

-----------------------------------------------------------------------------
(* SpecReports: generateMonthlyReports over the websites, competitors,        *)
(* threat_assessments and beam_reports tables, and sendMonthlyReport          *)

ReportCompetitorLimit == 5   \* LIMIT 5 of the competitors query

Months == {"2024-05", "2024-06"}

\* ORDER BY threat_score DESC over competitors rows (rows of equal score keep
\* their table order).
RECURSIVE InsertByThreatScore(_, _)
InsertByThreatScore(sorted, row) ==
    IF sorted = <<>> THEN <<row>>
    ELSE IF Head(sorted).threat_score >= row.threat_score
         THEN <<Head(sorted)>> \o InsertByThreatScore(Tail(sorted), row)
         ELSE <<row>> \o sorted

RECURSIVE OrderByThreatScoreDesc(_)
OrderByThreatScoreDesc(rows) ==
    IF rows = <<>> THEN <<>>
    ELSE InsertByThreatScore(OrderByThreatScoreDesc(SubSeq(rows, 1, Len(rows) - 1)),
                             rows[Len(rows)])

\* SELECT * FROM threat_assessments WHERE website_id = ?
\* ORDER BY assessed_at DESC LIMIT 1 (rows are appended in time order).
LatestAssessment(table, websiteId) ==
    LET rows == SelectSeq(table, LAMBDA row : row.website_id = websiteId)
    IN  IF rows = <<>> THEN None ELSE Some(rows[Len(rows)])

\* SELECT competitor_name as name, threat_level, threat_score FROM competitors
\* WHERE website_id = ? AND deleted_at IS NULL ORDER BY threat_score DESC LIMIT 5
SelectTopCompetitors(table, websiteId) ==
    LET live == SelectSeq(table, LAMBDA row : /\ row.website_id = websiteId
                                              /\ row.deleted_at = NULL)
        top == Slice(OrderByThreatScoreDesc(live), ReportCompetitorLimit)
    IN  [i \in 1..Len(top) |-> [name |-> top[i].competitor_name,
                                threat_level |-> top[i].threat_level,
                                threat_score |-> top[i].threat_score]]

\* const reportData = { ... }; the keyword and action lists are not modelled.
ReportData(threat, topCompetitors) ==
    [threat_level |-> IF IsNone(threat) THEN "MEDIUM" ELSE Val(threat).threat_level,
     threat_score |-> IF IsNone(threat) THEN 50 ELSE Val(threat).threat_score,
     competitor_count |-> Len(topCompetitors),
     top_competitors |-> topCompetitors]

\* INSERT INTO beam_reports (id, website_id, report_month, ..., email_status)
\* VALUES (UUID(), ..., 'pending') ON DUPLICATE KEY UPDATE ...; the table has
\* one report per website per month.
UpsertReport(table, websiteId, month, reportData) ==
    LET dup == {i \in 1..Len(table) : /\ table[i].website_id = websiteId
                                      /\ table[i].report_month = month}
    IN  IF dup = {}
        THEN Append(table, [id |-> Len(table) + 1, website_id |-> websiteId,
                            report_month |-> month,
                            threat_level |-> reportData.threat_level,
                            threat_score |-> reportData.threat_score,
                            competitor_count |-> reportData.competitor_count,
                            top_competitors |-> reportData.top_competitors,
                            email_status |-> "pending"])
        ELSE [i \in 1..Len(table) |->
                IF i \in dup
                THEN [table[i] EXCEPT !.threat_level = reportData.threat_level,
                                      !.threat_score = reportData.threat_score,
                                      !.competitor_count = reportData.competitor_count,
                                      !.top_competitors = reportData.top_competitors,
                                      !.email_status = "pending"]
                ELSE table[i]]

\* UPDATE beam_reports SET email_status = 'sent', email_sent_at = NOW()
\* WHERE website_id = ? AND report_month = ?
MarkReportSent(table, websiteId, month) ==
    [i \in 1..Len(table) |->
        IF table[i].website_id = websiteId /\ table[i].report_month = month
        THEN [table[i] EXCEPT !.email_status = "sent"]
        ELSE table[i]]

\* sendMonthlyReport: the values the message shows, the competitor count and
\* the competitors listed (report.top_competitors.slice(0, 3)).
MonthlyReportEmail(websiteId, report) ==
    [to |-> websiteId,
     threat_level |-> report.threat_level,
     threat_score |-> report.threat_score,
     competitor_count |-> report.competitor_count,
     listed |-> Slice(report.top_competitors, 3)]

CurrentReportWebsite == reportRun.websites[reportRun.position]

\* The for-of loop moves to the next website, or the function logs the
\* counts and returns.
NextReportItem(rr) ==
    IF rr.position = Len(rr.websites)
    THEN [rr EXCEPT !.pc = "done", !.threat = None, !.competitors = <<>>,
                    !.reportData = None]
    ELSE [rr EXCEPT !.pc = "threat", !.position = @ + 1, !.threat = None,
                    !.competitors = <<>>, !.reportData = None]

\* catch (error) { errorCount++; ... } of the loop body
CatchReportItem(rr) == NextReportItem([rr EXCEPT !.errorCount = @ + 1])

\* The cron callback of scheduleMonthlyReports fires, or generateMonthlyReports
\* is called directly, in the given month, once the previous invocation has
\* returned.
StartMonthlyReports(month) ==
    /\ reportRun.pc \in {"idle", "done"}
    /\ reportRun.invocation < MaxReportRuns
    /\ reportRun' = [IdleReportRun EXCEPT !.pc = "select", !.reportMonth = month,
                                          !.invocation = reportRun.invocation + 1]
    /\ UNCHANGED <<beamReports, sentEmails>>
    /\ UNCHANGED <<discoveryVars, aggregateVars, supervisorVars, threatVars,
                   scorerVars, refreshVars, schedulerVars, subscriptionVars>>

\* The select of the active websites returns; a rejection reaches the outer
\* catch clause.
SelectReportWebsites(ok) ==
    /\ reportRun.pc = "select"
    /\ IF ~ok
       THEN reportRun' = [reportRun EXCEPT !.pc = "done"]
       ELSE \E order \in ActiveOrders :
               reportRun' = NextReportItem([reportRun EXCEPT !.websites = order])
    /\ UNCHANGED <<beamReports, sentEmails>>
    /\ UNCHANGED <<discoveryVars, aggregateVars, supervisorVars, threatVars,
                   scorerVars, refreshVars, schedulerVars, subscriptionVars>>

\* The select of the latest threat assessment returns.
QueryThreat(ok) ==
    /\ reportRun.pc = "threat"
    /\ reportRun' =
          IF ~ok THEN CatchReportItem(reportRun)
          ELSE [reportRun EXCEPT !.pc = "competitors",
                    !.threat = LatestAssessment(assessments, CurrentReportWebsite)]
    /\ UNCHANGED <<beamReports, sentEmails>>
    /\ UNCHANGED <<discoveryVars, aggregateVars, supervisorVars, threatVars,
                   scorerVars, refreshVars, schedulerVars, subscriptionVars>>

\* The select of the top competitors returns.
QueryCompetitors(ok) ==
    /\ reportRun.pc = "competitors"
    /\ reportRun' =
          IF ~ok THEN CatchReportItem(reportRun)
          ELSE [reportRun EXCEPT !.pc = "keywords",
                    !.competitors = SelectTopCompetitors(competitors, CurrentReportWebsite)]
    /\ UNCHANGED <<beamReports, sentEmails>>
    /\ UNCHANGED <<discoveryVars, aggregateVars, supervisorVars, threatVars,
                   scorerVars, refreshVars, schedulerVars, subscriptionVars>>

\* The select of the top keywords returns.
QueryKeywords(ok) ==
    /\ reportRun.pc = "keywords"
    /\ reportRun' = IF ~ok THEN CatchReportItem(reportRun)
                    ELSE [reportRun EXCEPT !.pc = "actions"]
    /\ UNCHANGED <<beamReports, sentEmails>>
    /\ UNCHANGED <<discoveryVars, aggregateVars, supervisorVars, threatVars,
                   scorerVars, refreshVars, schedulerVars, subscriptionVars>>

\* The select of the recommended actions returns, and reportData is built.
QueryActions(ok) ==
    /\ reportRun.pc = "actions"
    /\ reportRun' =
          IF ~ok THEN CatchReportItem(reportRun)
          ELSE [reportRun EXCEPT !.pc = "store",
                    !.reportData = Some(ReportData(reportRun.threat, reportRun.competitors))]
    /\ UNCHANGED <<beamReports, sentEmails>>
    /\ UNCHANGED <<discoveryVars, aggregateVars, supervisorVars, threatVars,
                   scorerVars, refreshVars, schedulerVars, subscriptionVars>>

\* The insert of the report returns.
StoreReport(ok) ==
    /\ reportRun.pc = "store"
    /\ IF ~ok
       THEN reportRun' = CatchReportItem(reportRun) /\ UNCHANGED beamReports
       ELSE /\ beamReports' = UpsertReport(beamReports, CurrentReportWebsite,
                                           reportRun.reportMonth, Val(reportRun.reportData))
            /\ reportRun' = [reportRun EXCEPT !.pc = "email"]
    /\ UNCHANGED sentEmails
    /\ UNCHANGED <<discoveryVars, aggregateVars, supervisorVars, threatVars,
                   scorerVars, refreshVars, schedulerVars, subscriptionVars>>

\* emailService.sendMonthlyReport returns true (the transport accepted the
\* message) or false (no transport, or the transport rejected).
SendReport(emailSent) ==
    /\ reportRun.pc = "email"
    /\ IF emailSent
       THEN /\ sentEmails' = Append(sentEmails,
                                    MonthlyReportEmail(CurrentReportWebsite,
                                                       Val(reportRun.reportData)))
            /\ reportRun' = [reportRun EXCEPT !.pc = "mark"]
       ELSE /\ reportRun' = NextReportItem([reportRun EXCEPT !.successCount = @ + 1])
            /\ UNCHANGED sentEmails
    /\ UNCHANGED beamReports
    /\ UNCHANGED <<discoveryVars, aggregateVars, supervisorVars, threatVars,
                   scorerVars, refreshVars, schedulerVars, subscriptionVars>>

\* The update of email_status returns.  reportMonth is a Date with a time of
\* day: whether it equals the stored report_month depends on the column type
\* (matched).
MarkSent(ok, matched) ==
    /\ reportRun.pc = "mark"
    /\ IF ~ok
       THEN reportRun' = CatchReportItem(reportRun) /\ UNCHANGED beamReports
       ELSE /\ beamReports' = IF matched
                              THEN MarkReportSent(beamReports, CurrentReportWebsite,
                                                  reportRun.reportMonth)
                              ELSE beamReports
            /\ reportRun' = NextReportItem([reportRun EXCEPT !.successCount = @ + 1])
    /\ UNCHANGED sentEmails
    /\ UNCHANGED <<discoveryVars, aggregateVars, supervisorVars, threatVars,
                   scorerVars, refreshVars, schedulerVars, subscriptionVars>>

\* A competitors row as the discovery upsert writes it, soft-deleted or not.
ReportCompetitorRow(id, websiteId, deleted) ==
    [CompetitorRow(id, websiteId,
                   WithScores(Judgment("N", "u", TRUE, 90),
                              [total_threat_score |-> Some(60 + 10 * (id % 3)),
                               threat_level |-> "HIGH", sub_scores |-> <<>>]))
        EXCEPT !.deleted_at = IF deleted THEN "2024-01-01" ELSE NULL]

\* Website w1 has up to MaxReportCompetitors live rows and up to MaxDeleted
\* soft-deleted rows; website w2 has none or MaxReportCompetitors live rows.
ReportCompetitorTables ==
    { [i \in 1..(live1 + deleted1 + live2) |->
          IF i <= live1 THEN ReportCompetitorRow(i, "w1", FALSE)
          ELSE IF i <= live1 + deleted1 THEN ReportCompetitorRow(i, "w1", TRUE)
          ELSE ReportCompetitorRow(i, "w2", FALSE)] :
        live1 \in 0..MaxReportCompetitors, deleted1 \in 0..MaxDeleted,
        live2 \in {0, MaxReportCompetitors} }

\* threat_assessments: empty, or with one row of website w1.
ReportAssessmentTables ==
    { <<>>,
      InsertAssessment(<<>>, "w1", [threat_level |-> "HIGH", threat_score |-> 70,
                                    competitor_count |-> 7,
                                    average_competitor_score |-> 60]) }

ReportsInit ==
    /\ websiteRows \in [Websites -> {"active", "inactive"}]
    /\ competitors \in ReportCompetitorTables
    /\ assessments \in ReportAssessmentTables
    /\ jobs = <<>> /\ run = [r \in Runs |-> Idle] /\ started = 0
    /\ batch = [b \in Batches |-> IdleBatch]
    /\ ReportIdle /\ SchedulerIdle /\ SubscriptionIdle
    /\ AggregateIdle /\ SupervisorIdle /\ ThreatIdle /\ ScorerIdle

ReportsNext ==
    \/ \E month \in Months : StartMonthlyReports(month)
    \/ \E ok \in BOOLEAN : SelectReportWebsites(ok)
    \/ \E ok \in BOOLEAN : QueryThreat(ok)
    \/ \E ok \in BOOLEAN : QueryCompetitors(ok)
    \/ \E ok \in BOOLEAN : QueryKeywords(ok)
    \/ \E ok \in BOOLEAN : QueryActions(ok)
    \/ \E ok \in BOOLEAN : StoreReport(ok)
    \/ \E emailSent \in BOOLEAN : SendReport(emailSent)
    \/ \E ok \in BOOLEAN, matched \in BOOLEAN : MarkSent(ok, matched)

SpecReports == ReportsInit /\ [][ReportsNext]_vars

-----------------------------------------------------------------------------
(* Properties of the discovery orchestrator (Spec) *)

Terminal(status) == status \in {"completed", "failed"}

JobOf(r) == jobs[run[r].jobId]

\* C1: once a job row is completed or failed its status never changes again,
\* whatever later invocations for the same website do.
C1_TerminalStatusIsFinal ==
    [][\A i \in 1..Len(jobs) :
          Terminal(jobs[i].status) => jobs'[i].status = jobs[i].status]_vars

\* C2: an invocation ends by throwing only when the job insert, the context
\* resolution, a competitor upsert or the completing update failed; whatever
\* the search provider and the reasoning service answer, an invocation in
\* which none of these failed returns, and its job is completed when it does.
C2_ProviderFailuresAbsorbed ==
    [][\A r \in Runs :
          (InFlight(r) /\ Ended(r)') =>
              /\ run'[r].pc = "thrown" =>
                    run'[r].failedAt \in {"insert", "context", "not_found",
                                          "upsert", "complete"}
              /\ run'[r].failedAt = "none" =>
                    /\ run'[r].pc = "returned"
                    /\ jobs'[run'[r].jobId].status = "completed"]_vars

\* C2 witness: an invocation has returned with its job completed although
\* every one of its three research requests was rejected.
C2_Witness ==
    \E r \in Runs :
        /\ run[r].pc = "returned"
        /\ run[r].noSearchAnswer
        /\ JobOf(r).status = "completed"

C4_NoSearchAnswerFindsNothing ==
    \A r \in Runs :
        (run[r].pc = "returned" /\ run[r].noSearchAnswer) =>
            /\ JobOf(r).competitors_found = Some(0)
            /\ run[r].stored = 0

\* C5: the competitors table holds at most one row per (website, competitor
\* URL), so a second invocation with the same answers adds no row.
C5_OneRowPerWebsiteAndUrl ==
    \A i, j \in 1..Len(competitors) :
        (/\ competitors[i].website_id = competitors[j].website_id
         /\ competitors[i].competitor_url = competitors[j].competitor_url) => i = j

\* C14: the three research agents run concurrently: while the invocation
\* awaits the answer of an agent, the search requests of all three agents
\* have been issued.
C14_AgentsRunConcurrently ==
    \A r \in Runs :
        run[r].pc \in {"agent1", "agent2", "agent3"} =>
            SearchesIssued(run[r].pc) = {1, 2, 3}

\* The row the upsert of competitor c by invocation r has written in this step.
Written(r, c, i) ==
    /\ i \in 1..Len(competitors')
    /\ i > Len(competitors) \/ competitors'[i] # competitors[i]
    /\ competitors'[i].website_id = run[r].websiteId
    /\ competitors'[i].competitor_url = c.url

\* Invocation r performs the upsert of its next competitor in this step.
Upserts(r) == run[r].pc = "store" /\ run'[r].stored = run[r].stored + 1

NextToStore(r) == run[r].competitorsWithScores[run[r].stored + 1]

\* C16: a failing or unparseable scorer reply never ends the invocation; the
\* competitor is upserted with threat_score 50 and threat_level MEDIUM, and
\* competitors_found counts every validated competitor.
C16_ScorerFailureKeepsCompetitor ==
    [][\A r \in Runs :
          /\ run'[r].failedAt # "scorer"
          /\ (Upserts(r) /\ (run[r].stored + 1) \in run[r].defaulted) =>
                \E i \in 1..Len(competitors') :
                    /\ Written(r, NextToStore(r), i)
                    /\ competitors'[i].threat_score = 50
                    /\ competitors'[i].threat_level = "MEDIUM"
          /\ (run[r].pc = "complete" /\ run'[r].pc = "returned") =>
                jobs'[run[r].jobId].competitors_found = Some(run[r].validatedCount)]_vars

\* C16 witness: an invocation returned after a scorer reply that was no
\* object; the competitor's row holds 50 and MEDIUM and the job counts it.
C16_Witness ==
    \E r \in Runs :
        /\ run[r].pc = "returned"
        /\ run[r].defaulted # {}
        /\ run[r].stored = run[r].validatedCount
        /\ JobOf(r).competitors_found = Some(run[r].validatedCount)
        /\ \E i \in 1..Len(competitors) :
              /\ competitors[i].website_id = run[r].websiteId
              /\ competitors[i].threat_score = 50
              /\ competitors[i].threat_level = "MEDIUM"

\* C19: no invocation ends, by returning or by throwing, with the job row it
\* created still in_progress.
C19_NoJobLeftInProgress ==
    \A r \in Runs :
        (Ended(r) /\ run[r].jobId # 0) => Terminal(JobOf(r).status)

\* C23: the job row of an invocation is inserted with status pending, and
\* every status change of a job row is pending -> in_progress,
\* in_progress -> completed, or a change to failed.
C23_JobStartsPending ==
    [][\A i \in 1..Len(jobs') :
          /\ i > Len(jobs) => jobs'[i].status = "pending"
          /\ (i <= Len(jobs) /\ jobs'[i].status # jobs[i].status) =>
                \/ jobs[i].status = "pending" /\ jobs'[i].status = "in_progress"
                \/ jobs[i].status = "in_progress" /\ jobs'[i].status = "completed"
                \/ jobs'[i].status = "failed"]_vars

\* C24: the stages of an invocation follow one another: the validator is
\* called when the three agents have returned, a scorer call follows the
\* validation or the previous scorer call, an upsert is made when every
\* validated competitor is scored, and the job is set completed when every
\* scored competitor is upserted, with competitors_found the number of upserts
\* of the invocation, at most 5.
C24_StagesInOrder ==
    [][\A r \in Runs :
          /\ (run'[r].pc = "supervise" /\ run[r].pc # "supervise") =>
                run'[r].agentsReturned = 3
          /\ (run'[r].pc = "score" /\ run[r].pc # "score") =>
                /\ run[r].pc = "supervise"
                /\ run[r].agentsReturned = 3
          /\ Upserts(r) =>
                Len(run[r].competitorsWithScores) = run[r].validatedCount
          /\ (InFlight(r) /\ run[r].jobId # 0
                /\ jobs'[run[r].jobId].status = "completed"
                /\ jobs[run[r].jobId].status # "completed") =>
                /\ run[r].pc = "complete"
                /\ run[r].stored = Len(run[r].competitorsWithScores)
                /\ run[r].stored = run[r].validatedCount
                /\ run[r].stored <= 5
                /\ jobs'[run[r].jobId].competitors_found = Some(run[r].stored)]_vars

\* C24 witness: an invocation has returned after two upserts and its job is
\* completed with competitors_found = 2.
C24_Witness ==
    \E r \in Runs :
        /\ run[r].pc = "returned"
        /\ run[r].stored = 2
        /\ run[r].validatedCount = 2
        /\ JobOf(r).status = "completed"
        /\ JobOf(r).competitors_found = Some(2)

\* C26: the catch block of an invocation changes no job row but the one that
\* invocation created.
C26_FailureTouchesOwnJobOnly ==
    [][\A r \in Runs :
          (run[r].pc = "catch" /\ run'[r].pc = "thrown") =>
              \A i \in 1..Len(jobs) : i # run[r].jobId => jobs'[i] = jobs[i]]_vars

\* C27: every competitor an invocation upserts has the URL of one of the
\* invocation's deduplicated candidates.
C27_StoredUrlIsACandidate ==
    [][\A r \in Runs :
          Upserts(r) =>
              NextToStore(r).url \in
                  {run[r].uniqueCandidates[k].url :
                      k \in 1..Len(run[r].uniqueCandidates)}]_vars

-----------------------------------------------------------------------------
(* Properties of the candidate merge (SpecAggregate) *)

AllCandidates == aggIn[1] \o aggIn[2] \o aggIn[3]

\* The last candidate with this URL in the order agent 1, agent 2, agent 3.
LastWithUrl(url) ==
    AllCandidates[CHOOSE k \in 1..Len(AllCandidates) :
                      /\ AllCandidates[k].url = url
                      /\ \A j \in (k + 1)..Len(AllCandidates) :
                            AllCandidates[j].url # url]

\* C6: the merged list holds exactly one candidate for each URL of the three
\* agent lists and no other URL, and that candidate is the last occurrence of
\* the URL in the order agent 1, agent 2, agent 3.
C6_OneCandidatePerUrlLastWins ==
    aggOut # None =>
        LET out == Val(aggOut)
        IN  /\ {out[i].url : i \in 1..Len(out)} =
                  {AllCandidates[k].url : k \in 1..Len(AllCandidates)}
            /\ \A i, j \in 1..Len(out) : out[i].url = out[j].url => i = j
            /\ \A i \in 1..Len(out) : out[i] = LastWithUrl(out[i].url)

\* C6 witness: agents 1 and 3 return the same URL under different names and
\* the merged list holds agent 3's candidate alone for it.
C6_Witness ==
    /\ aggOut # None
    /\ \E a \in Range(aggIn[1]), c \in Range(aggIn[3]) :
          /\ a.url = c.url /\ a.name # c.name
          /\ aggIn[3] = <<c>>
          /\ c \in Range(Val(aggOut))
          /\ a \notin Range(Val(aggOut))
    /\ Len(Val(aggOut)) < Len(AllCandidates)

-----------------------------------------------------------------------------
(* Properties of supervisorAgent (SpecSupervisor) *)

\* The positions of the judgment list that pass the filter of the claim.
Passing == {k \in 1..Len(supIn) : supIn[k].is_competitor /\ supIn[k].confidence >= 80}

C8_TopFiveByConfidence ==
    supOut # None =>
        LET out == Val(supOut)
            kept == {k \in Passing : supIn[k] \in Range(out)}
        IN  /\ Len(out) <= 5
            /\ Len(out) = Min(5, Cardinality(Passing))
            /\ \A i \in 1..Len(out) : \E k \in Passing : out[i] = supIn[k]
            /\ \A i, j \in 1..Len(out) : out[i] = out[j] => i = j
            /\ \A i \in 1..(Len(out) - 1) : out[i].confidence >= out[i + 1].confidence
            /\ \A k \in Passing \ kept : \A i \in 1..Len(out) :
                  supIn[k].confidence <= out[i].confidence

\* C8 witness: six entries pass, in increasing order of confidence in the
\* reply; five are returned, highest first, and an entry of the lowest
\* confidence is left out.
C8_Witness ==
    /\ supOut # None
    /\ Cardinality(Passing) = 6
    /\ supIn[1].confidence = 80 /\ supIn[Len(supIn)].confidence = 95
    /\ Len(Val(supOut)) = 5
    /\ Val(supOut)[1].confidence = 95
    /\ Val(supOut)[5].confidence = 80
    /\ \E k \in Passing : supIn[k] \notin Range(Val(supOut)) /\ supIn[k].confidence = 80

\* C15: supervisorAgent never rejects, and it returns the empty list when the
\* reasoning call fails, when the content holds no {...} object, when the
\* object is malformed JSON and when it has no validated_competitors list.
C15_SupervisorNeverRaises ==
    supOut # None =>
        /\ ~supRaised
        /\ supKind \in {"error", "prose", "badjson", "nolist"} => Val(supOut) = <<>>

\* C15 witness: the object found in the content was malformed JSON and the
\* supervisor returned the empty list.
C15_Witness ==
    /\ supOut # None
    /\ supKind = "badjson"
    /\ ~supRaised
    /\ Val(supOut) = <<>>

-----------------------------------------------------------------------------
(* Properties of the scorer and the upsert values (SpecScorer) *)

ThreatLevels == {"CRITICAL", "HIGH", "MEDIUM", "LOW"}

\* C17: the competitor row written has a threat_score in 0..100 and a
\* threat_level among CRITICAL, HIGH, MEDIUM, LOW, and when the scorer's
\* reply is an object the threat_score is the sum of its four sub-scores
\* clamped to 100.
C17_RowScoreIsClampedSum ==
    scoredRow # None =>
        /\ Val(scoredRow).threat_score \in 0..100
        /\ Val(scoredRow).threat_level \in ThreatLevels
        /\ scorerReply.kind = "object" =>
              Val(scoredRow).threat_score =
                  Min(100, SumSeq(scorerReply.object.sub_scores))

-----------------------------------------------------------------------------
(* Properties of the weekly refresh (SpecRefresh) *)

Occurrences(seq, x) == Cardinality({i \in 1..Len(seq) : seq[i] = x})

\* C12: a batch whose select returned processes every active, non-deleted
\* website exactly once, whatever throws in the loop bodies: it ends only by
\* completing, and at completion success_count + error_count is the number
\* of websites selected and error_count the number of loop bodies that threw.
C12_EveryWebsiteProcessedOnce ==
    \A b \in Batches :
        /\ batch[b].pc = "failed" => (batch[b].websites = <<>> /\ batch[b].visited = <<>>)
        /\ ~(batch[b].pc \in {"idle", "select", "failed"}) =>
              /\ Range(batch[b].websites) = Active
              /\ \A w \in Active : Occurrences(batch[b].websites, w) = 1
              /\ \A w \in Websites : Occurrences(batch[b].visited, w) <= 1
        /\ batch[b].pc = "done" =>
              /\ batch[b].visited = batch[b].websites
              /\ batch[b].successCount + batch[b].errorCount = Len(batch[b].websites)
              /\ batch[b].errorCount = batch[b].threw

\* C12 witness: a batch over two websites has completed; discovery threw for
\* the first website and the second was refreshed and counted as a success.
C12_Witness ==
    \E b \in Batches :
        /\ batch[b].pc = "done"
        /\ Len(batch[b].websites) = 2
        /\ batch[b].websites[1] \in batch[b].discoveryThrew
        /\ batch[b].succeeded = <<batch[b].websites[2]>>
        /\ batch[b].successCount = 1
        /\ batch[b].errorCount = 1

\* C13: the threat_assessments table is append-only, a row is appended
\* exactly when a batch stores the assessment of its current website, and in
\* every batch each website counted as a success has exactly one row appended
\* by that batch and a website whose discovery threw has none.
C13_OneAssessmentPerSuccess ==
    [][/\ Len(assessments') >= Len(assessments)
       /\ SubSeq(assessments', 1, Len(assessments)) = assessments
       /\ Len(assessments') <= Len(assessments) + 1
       /\ Len(assessments') = Len(assessments) + 1 =>
             \E b \in Batches :
                 /\ batch[b].pc = "insert"
                 /\ batch'[b].inserted = Append(batch[b].inserted, Current(batch[b]))
                 /\ assessments'[Len(assessments')].website_id = Current(batch[b])
       /\ \A b \in Batches :
             /\ batch'[b].inserted # batch[b].inserted =>
                   (batch'[b].inserted = <<>> \/ Len(assessments') = Len(assessments) + 1)
             /\ batch'[b].successCount = Len(batch'[b].succeeded)
             /\ \A w \in Range(batch'[b].succeeded) :
                   Occurrences(batch'[b].inserted, w) = 1
             /\ \A w \in batch'[b].discoveryThrew :
                   Occurrences(batch'[b].inserted, w) = 0]_vars

\* C13 witness: a batch has completed with one success for a website that
\* already had an assessment; the table holds both rows of that website.
C13_Witness ==
    \E b \in Batches :
        /\ batch[b].pc = "done"
        /\ batch[b].successCount = 1
        /\ \E i, j \in 1..Len(assessments) :
              /\ i < j
              /\ assessments[i].website_id = assessments[j].website_id
              /\ batch[b].succeeded = <<assessments[j].website_id>>

\* C22: the row a batch appends to threat_assessments carries the six values
\* calculateThreatScore returned for the website: threat_level, threat_score,
\* competitor_count, average_competitor_score, market_saturation and
\* ai_search_visibility.
C22_AssessmentCarriesSixValues ==
    [][\A b \in Batches :
          (batch[b].pc = "insert" /\ batch'[b].pc = "touch") =>
              LET row == assessments'[Len(assessments')]
                  threatData == Val(batch[b].threatData)
              IN  /\ row.website_id = Current(batch[b])
                  /\ row.threat_level = threatData.threat_level
                  /\ row.threat_score = threatData.threat_score
                  /\ row.competitor_count = threatData.competitor_count
                  /\ row.average_competitor_score = threatData.average_competitor_score
                  /\ row.market_saturation = threatData.market_saturation
                  /\ row.ai_search_visibility = threatData.ai_search_visibility]_vars

\* C18: at most one performWeeklyRefresh is in progress at any time.
C18_NoOverlappingBatches ==
    Cardinality({b \in Batches : InProgress(b)}) <= 1

-----------------------------------------------------------------------------
(* Properties of calculateThreatScore (SpecThreat) *)

Live == {i \in 1..Len(siteCompetitors) : siteCompetitors[i].deleted_at = NULL}
LiveCount == Cardinality(Live)

\* The stored score of every live competitor is below the limit (a NULL
\* score is no score).
MaxStoredBelow(limit) ==
    \A i \in Live : \/ IsNone(siteCompetitors[i].threat_score)
                    \/ Val(siteCompetitors[i].threat_score) < limit

\* C9: with no live competitor and no keyword the result is LOW, 20,
\* market_saturation very_low, ai_search_visibility very_low.
C9_EmptyWebsiteAssessment ==
    (assessment # None /\ LiveCount = 0 /\ keywordCount = 0) =>
        /\ Val(assessment).threat_level = "LOW"
        /\ Val(assessment).threat_score = 20
        /\ Val(assessment).market_saturation = "very_low"
        /\ Val(assessment).ai_search_visibility = "very_low"

\* C10: for n >= 1 live competitors whose maximum score is below 75 the
\* result carries the values of the count bracket.
C10_BracketValues ==
    (assessment # None /\ LiveCount >= 1 /\ MaxStoredBelow(75)) =>
        LET n == LiveCount
            a == Val(assessment)
            level == a.threat_level
            score == a.threat_score
            saturation == a.market_saturation
        IN  /\ n >= 10 =>
                  /\ level = "CRITICAL"
                  /\ score = Min(100, 80 + 2 * (n - 10))
                  /\ saturation = "very_high"
            /\ (7 <= n /\ n <= 9) =>
                  level = "HIGH" /\ score = 65 + 3 * (n - 7) /\ saturation = "high"
            /\ (5 <= n /\ n <= 6) =>
                  level = "MEDIUM" /\ score = 50 + 3 * (n - 5) /\ saturation = "medium"
            /\ (3 <= n /\ n <= 4) =>
                  level = "MEDIUM" /\ score = 40 + 2 * n /\ saturation = "medium"
            /\ (1 <= n /\ n <= 2) =>
                  level = "LOW" /\ score = 20 + 5 * n /\ saturation = "very_low"

\* C10 witness: 11 live competitors, all scored 60, give CRITICAL, 82,
\* very_high.
C10_Witness ==
    /\ assessment # None
    /\ LiveCount = 11
    /\ \A i \in Live : siteCompetitors[i].threat_score = Some(60)
    /\ Val(assessment).threat_level = "CRITICAL"
    /\ Val(assessment).threat_score = 82
    /\ Val(assessment).market_saturation = "very_high"

\* The stored scores of the live competitors, in table order.
LiveScores ==
    LET live == SelectSeq(siteCompetitors, LAMBDA row : row.deleted_at = NULL)
    IN  [i \in 1..Len(live) |-> live[i].threat_score]

\* The largest stored score of the live competitors (0 when none is stored).
MaxStored ==
    LET stored == {Val(LiveScores[i]) : i \in {k \in 1..Len(LiveScores) : ~IsNone(LiveScores[k])}}
    IN  IF stored = {} THEN 0 ELSE CHOOSE m \in stored : \A x \in stored : x <= m

\* The level and score of the count bracket as the specification tabulates them.
BaseLevel(n) ==
    IF n >= 10 THEN "CRITICAL" ELSE IF n >= 7 THEN "HIGH" ELSE IF n >= 3 THEN "MEDIUM" ELSE "LOW"

BaseScore(n) ==
    IF n >= 10 THEN Min(100, 80 + 2 * (n - 10))
    ELSE IF n >= 7 THEN 65 + 3 * (n - 7)
    ELSE IF n >= 5 THEN 50 + 3 * (n - 5)
    ELSE IF n >= 3 THEN 40 + 2 * n
    ELSE 20 + 5 * n

OneStepUp(level) ==
    IF level = "LOW" THEN "MEDIUM" ELSE IF level = "MEDIUM" THEN "HIGH" ELSE level

\* C11: for n >= 1 live competitors, a maximum score >= 90 gives CRITICAL and
\* max(base, 85); a maximum score in 75..89 raises the bracket level by exactly
\* one step (LOW to MEDIUM, MEDIUM to HIGH, HIGH and CRITICAL stay) and gives
\* max(base, 70).
C11_EscalationByStrongestCompetitor ==
    (assessment # None /\ LiveCount >= 1) =>
        LET n == LiveCount
            a == Val(assessment)
        IN  /\ MaxStored >= 90 =>
                  /\ a.threat_level = "CRITICAL"
                  /\ a.threat_score = Max(BaseScore(n), 85)
            /\ (75 <= MaxStored /\ MaxStored <= 89) =>
                  /\ a.threat_level = OneStepUp(BaseLevel(n))
                  /\ a.threat_score = Max(BaseScore(n), 70)

\* 50 stands in for a NULL score and for no other.
NullAsFifty(score) == IF IsNone(score) THEN 50 ELSE Val(score)

\* C20: the average is taken over the stored scores with 50 substituted for a
\* NULL score only; a competitor stored with score 0 contributes 0.
C20_ZeroScoreCountsAsZero ==
    (assessment # None /\ LiveCount >= 1) =>
        Val(assessment).average_competitor_score =
            RoundDiv(SumSeq([i \in 1..Len(LiveScores) |-> NullAsFifty(LiveScores[i])]),
                     Len(LiveScores))

\* The visibility bucket of a keyword count as the specification tabulates it.
VisibilityBucket(count) ==
    IF count >= 20 THEN "very_high"
    ELSE IF count >= 15 THEN "high"
    ELSE IF count >= 10 THEN "medium"
    ELSE IF count >= 5 THEN "low"
    ELSE "very_low"

\* C21: ai_search_visibility is the bucket of the website's keyword count,
\* whatever the competitor rows are, including when there is none.
C21_VisibilityByKeywordsOnly ==
    assessment # None =>
        Val(assessment).ai_search_visibility = VisibilityBucket(keywordCount)

LevelRank(level) ==
    CASE level = "LOW" -> 1 [] level = "MEDIUM" -> 2 [] level = "HIGH" -> 3
      [] level = "CRITICAL" -> 4

\* C25: the threat_score is in 20..100; CRITICAL comes with a score >= 80,
\* HIGH with a score >= 65, LOW with a score <= 30; and the level is never
\* below the level of the count bracket.
C25_ScoreConsistentWithLevel ==
    assessment # None =>
        LET a == Val(assessment)
        IN  /\ a.threat_score \in 20..100
            /\ a.threat_level = "CRITICAL" => a.threat_score >= 80
            /\ a.threat_level = "HIGH" => a.threat_score >= 65
            /\ a.threat_level = "LOW" => a.threat_score <= 30
            /\ LevelRank(a.threat_level) >= LevelRank(BaseLevel(LiveCount))

\* C25 witness: one live competitor scored 90 lifts the LOW bracket (score
\* 25) to CRITICAL with score 85.
C25_Witness ==
    /\ assessment # None
    /\ LiveCount = 1
    /\ MaxStored = 90
    /\ Val(assessment).threat_level = "CRITICAL"
    /\ Val(assessment).threat_score = 85

-----------------------------------------------------------------------------
(* Properties of the cron tasks (SpecScheduler) *)

\* C28: once stopAllTasks has returned, after any number of
\* initializeScheduledTasks calls, no weekly, monthly or daily task the
\* service has created is still running.
C28_StopLeavesNoTaskRunning ==
    tasksStopped => \A j \in 1..Len(cronJobs) : ~cronJobs[j].running

-----------------------------------------------------------------------------
(* Properties of the monthly reports (SpecReports) *)

\* The non-deleted competitors rows of a website.
LiveCompetitors(websiteId) ==
    {i \in 1..Len(competitors) : /\ competitors[i].website_id = websiteId
                                 /\ competitors[i].deleted_at = NULL}

\* C29: the competitor_count of every stored monthly report and of every
\* report email equals the number of non-deleted competitors of its website,
\* whatever that number is.
C29_ReportCountsAllCompetitors ==
    /\ \A i \in 1..Len(beamReports) :
          beamReports[i].competitor_count =
              Cardinality(LiveCompetitors(beamReports[i].website_id))
    /\ \A i \in 1..Len(sentEmails) :
          sentEmails[i].competitor_count =
              Cardinality(LiveCompetitors(sentEmails[i].to))

-----------------------------------------------------------------------------
(* Properties of the payment controller (SpecSubscription) *)

\* C30: no user has more than one subscription row in status 'active'.
C30_AtMostOneActiveSubscription ==
    \A u \in Users : Cardinality(ActiveSubscriptions(subscriptions, u)) <= 1

====
